---- MODULE Spec2Model ----
(***************************************************************************)
(* HX711 load cell application (OfficialAudite/hx711loadcell-gui).         *)
(*                                                                         *)
(* The model covers the device helper HX711 and the background reader      *)
(* HX711ReaderThread (lib/hx711_device.py), the Tk front end HX711App      *)
(* (lib/app_ui.py) and the Qt front end HX711Controller (lib/qt_app.py).   *)
(*                                                                         *)
(* Objects are records.  The front end holds at most one HX711 (self.hx)   *)
(* and one HX711ReaderThread (self.reader), which was built on self.hx;    *)
(* a reader the front end has let go of while its thread still runs is     *)
(* kept, with the state of its device, in the bag of orphans.  An Optional *)
(* value is the empty sequence (None) or a one-element sequence; a float   *)
(* that results from a division is an exact fraction <<n, d>>.             *)
(***************************************************************************)
EXTENDS Integers, Sequences, FiniteSets, Bags, TLC

VARIABLES
    ui,         \* front end in use: "tk" (HX711App), "qt" (HX711Controller), "lib" (bare client of the reader)
    demo,       \* HX711Controller.demo
    hx,         \* self.hx: the HX711 the front end holds (st = "none" for None)
    rd,         \* self.reader: the HX711ReaderThread the front end holds (st = "none" for None)
    orphans,    \* readers no longer held whose thread is still alive
    demo_timer, \* HX711Controller._demo_timer is set
    is_reading, \* HX711Controller._is_reading
    config,     \* the configuration document (self.config / self._config, saved on every change)
    gui,        \* the Tk entry variables (scale_var, offset_var, samples_var, known_weight_var)
    main,       \* position of the main (GUI) thread and the locals it carries across a wait
    tares,      \* number of do_tare threads started by _tare_async and not yet run
    cal_status, \* the calibration status shown: its level and the reasons of a warning
    io,         \* what the last step did to the hardware and the reader: a sequence of events
    pre         \* the calibration attempt in progress or just ended: the state before it and its outcome

vars == <<ui, demo, hx, rd, orphans, demo_timer, is_reading, config, gui, cal_status, main, tares, io, pre>>

----------------------------------------------------------------------------
(* Bounds of the model *)

(* background threads, at any one time, besides those of the held reader:  *)
(* threads of readers let go of, and do_tare threads started and not yet run *)
MaxBackground == 1

(* Averages the amplifier can deliver (read_average results) *)
RawVals == {0, 500}

(* time.time() values *)
Times == {1}

----------------------------------------------------------------------------
(* Optional values, fractions, evaluation order *)

None == <<>>
Some(v) == <<v>>
Val(o) == o[1]

(* F applied to the value of v, v being evaluated once *)
With(v, F(_)) == CHOOSE y \in {F(x) : x \in {v}} : TRUE

Frac(n, d) == <<n, d>>
Num(q) == q[1]
Den(q) == q[2]
FracOfInt(i) == Frac(i, 1)
FracLeZero(q) == Num(q) <= 0

RECURSIVE Gcd(_, _)
Gcd(a, b) == IF b = 0 THEN a ELSE Gcd(b, a % b)

Abs(x) == IF x < 0 THEN -x ELSE x
Max(a, b) == IF a >= b THEN a ELSE b

Normal(q) ==
    LET n == IF Den(q) < 0 THEN -Num(q) ELSE Num(q)
        d == Abs(Den(q))
        g == Gcd(Abs(n), d)
    IN  IF n = 0 THEN Frac(0, 1) ELSE Frac(n \div g, d \div g)

(* Arithmetic and order of fractions with positive denominators.  The     *)
(* order compares the whole parts first, so that no product leaves the     *)
(* range of the integers at hand                                           *)
Floor(q) == Num(q) \div Den(q)
Rest(q) == Num(q) - Floor(q) * Den(q)
FracLe(a, b) ==
    \/ Floor(a) < Floor(b)
    \/ Floor(a) = Floor(b) /\ Rest(a) * Den(b) <= Rest(b) * Den(a)
FracMax(a, b) == IF FracLe(a, b) THEN b ELSE a
FracDiv(a, b) == Normal(Frac(Num(a) * Den(b), Den(a) * Num(b)))
FracSub(a, b) == Normal(Frac(Num(a) * Den(b) - Num(b) * Den(a), Den(a) * Den(b)))
FracAbs(a) == Frac(Abs(Num(a)), Den(a))
FracMul(a, b) == Normal(Frac(Num(a) * Num(b), Den(a) * Den(b)))

----------------------------------------------------------------------------
(* lib/hx711_device.py: class HX711 *)

DefaultOffsetHX == 0
DefaultScaleHX == 1
DefaultTareHX == 0

(* HX711.__init__: fields as set by the constructor; the lines are bound,  *)
(* and the clock line PD_SCK is low after power_up and the read of set_gain *)
NewHX ==
    [st |-> "open",
     OFFSET |-> DefaultOffsetHX,
     SCALE |-> FracOfInt(DefaultScaleHX),
     TARE_OFFSET |-> DefaultTareHX,
     PD_SCK |-> "low"]

(* self.hx = None *)
NoHX == [NewHX EXCEPT !.st = "none"]

(* HX711.close: releases the lines once; later calls do nothing.  Nothing  *)
(* reads the fields of a closed HX711 (every use starts with a read, which *)
(* raises), so they are not kept                                           *)
CloseHX(h) == IF h.st = "open" THEN [NewHX EXCEPT !.st = "closed"] ELSE h

set_scale(h, scale) == [h EXCEPT !.SCALE = scale]
set_offset(h, offset) == [h EXCEPT !.OFFSET = offset]
set_tare_offset(h, t) == [h EXCEPT !.TARE_OFFSET = t]
(* HX711.power_down: PD_SCK.off(); PD_SCK.on().  HX711.power_up:           *)
(* PD_SCK.off()                                                            *)
power_down(h) == [h EXCEPT !.PD_SCK = "high"]
power_up(h) == [h EXCEPT !.PD_SCK = "low"]

(* HX711.read ends with PD_SCK.off(), after the pulses of the conversion *)
Clocked(h) == [h EXCEPT !.PD_SCK = "low"]

(* a clear_tare that leaves the tare offset in place *)
clear_tare_Keeps(h) == h

clear_tare(h) == [h EXCEPT !.TARE_OFFSET = 0]

(* HX711.read_average on a device in state st: Some(mean of the samples),  *)
(* or None for an exception: gpiozero devices raise once they are closed,  *)
(* and an I/O error is possible on an open device                          *)
OpenOutcomes == {None} \cup {Some(v) : v \in RawVals}
ReadOutcomes(st) == IF st = "open" THEN OpenOutcomes ELSE {None}
Raised(out) == out = None

(* HX711.set_gain: self.GAIN, the number of clock pulses after the data    *)
(* bits, for the gains the code names.  Nothing in its try block raises,   *)
(* so the except branch (self.GAIN = 3) never runs: any other gain leaves  *)
(* self.GAIN as it was                                                     *)
set_gain(h, gain) ==
    [h EXCEPT !.GAIN = IF gain = 128 THEN 3
                       ELSE IF gain = 64 THEN 2
                       ELSE IF gain = 32 THEN 1
                       ELSE @]

(* HX711.read: the data bits of one conversion, and the mask of bit 23 *)
SampleBits == 24
SignMask == 8388608

(* self.DOUT.is_active in iteration k of the loop (k = 1 is the first),    *)
(* the amplifier shifting out the conversion p most significant bit first  *)
DoutBit(p, k) == (p \div 2^(SampleBits - k)) % 2

(* for _ in range(24): count <<= 1; if self.DOUT.is_active == 1: count += 1 *)
RECURSIVE ShiftIn(_, _, _)
ShiftIn(p, k, count) ==
    IF k > SampleBits THEN count ELSE ShiftIn(p, k + 1, 2 * count + DoutBit(p, k))

(* a ^ b on non-negative integers *)
RECURSIVE BitXor(_, _)
BitXor(a, b) ==
    IF a = 0 THEN b
    ELSE IF b = 0 THEN a
    ELSE 2 * BitXor(a \div 2, b \div 2) + ((a + b) % 2)

(* HX711.read with the amplifier holding the conversion p: count ^= 0x800000 *)
read(p) == BitXor(ShiftIn(p, 1, 0), SignMask)

(* read_average with the integer division "total // times" *)
read_average_FloorDiv(total, times) ==
    IF times = 0 THEN None ELSE Some(FracOfInt(total \div times))

(* HX711.read_average: "return total / times" after the loop; None is the *)
(* ZeroDivisionError of times = 0                                          *)
read_average(total, times) == IF times = 0 THEN None ELSE Some(Normal(Frac(total, times)))

(* HX711.get_grams once read_average has returned avg; None is the       *)
(* ZeroDivisionError of "/ self.SCALE" with SCALE = 0                      *)
get_grams(h, avg) ==
    IF Num(h.SCALE) = 0 THEN None
    ELSE Some(FracDiv(FracSub(FracAbs(FracSub(avg, h.OFFSET)), FracAbs(h.TARE_OFFSET)), h.SCALE))

(* HX711.tare once read_average has returned avg: self.set_offset(avg) *)
tare(h, avg) == set_offset(h, avg)

----------------------------------------------------------------------------
(* lib/hx711_device.py: class HX711ReaderThread *)

NewThread == [pc |-> "top", cbStop |-> "none"]

(* self.reader = None *)
NoReader == [st |-> "none", stop |-> FALSE, threads |-> <<>>]

(* HX711ReaderThread.__init__ *)
NewReader == [st |-> "live", stop |-> FALSE, threads |-> <<>>]

Alive(t) == t.pc # "dead"
InTick(t) == t.pc \in {"read", "cb", "err"}

AliveThreads(R) == {i \in 1..Len(R.threads) : Alive(R.threads[i])}
TickingThreads(R) == {i \in 1..Len(R.threads) : InTick(R.threads[i])}

(* self._thread: the Thread object made by the latest start() *)
HasThread(R) == Len(R.threads) > 0
CurThread(R) == R.threads[Len(R.threads)]

KeepAlive(ts) == SelectSeq(ts, Alive)

(* A start() that does not look at is_alive() *)
ReaderStart_NoAliveCheck(R) ==
    [R EXCEPT !.stop = FALSE, !.threads = Append(KeepAlive(R.threads), NewThread)]

(* HX711ReaderThread.start *)
ReaderStart(R) ==
    IF HasThread(R) /\ Alive(CurThread(R))
    THEN R
    ELSE [R EXCEPT !.stop = FALSE, !.threads = Append(KeepAlive(R.threads), NewThread)]

(* HX711ReaderThread.stop, up to the join: the flag is set *)
ReaderStopSet(R) == [R EXCEPT !.stop = TRUE]

(* _run, lines 190-192: the grams of a tick from the average raw and the   *)
(* device's fields as they are at that moment                             *)
Epsilon == Frac(1, 1000000000)
TickGrams(h, raw) ==
    FracDiv(FracSub(FracAbs(FracSub(raw, h.OFFSET)), FracAbs(h.TARE_OFFSET)),
            FracMax(h.SCALE, Epsilon))

(* self._gram_buffer = deque(maxlen=3); self._gram_buffer.append(grams) *)
GramBufferLen == 3

(* a buffer that is a plain list: nothing is ever dropped *)
BufferAppend_NoLimit(buf, g) == Append(buf, g)

BufferAppend(buf, g) ==
    IF Len(buf) < GramBufferLen THEN Append(buf, g) ELSE Append(Tail(buf), g)

(* sorted(self._gram_buffer)[len(self._gram_buffer) // 2] *)
RECURSIVE Insert(_, _)
Insert(s, x) ==
    IF s = <<>> THEN <<x>>
    ELSE IF FracLe(x, Head(s)) THEN <<x>> \o s
    ELSE <<Head(s)>> \o Insert(Tail(s), x)

RECURSIVE Sorted(_)
Sorted(s) == IF s = <<>> THEN <<>> ELSE Insert(Sorted(Tail(s)), Head(s))

Smoothed(buf) == Sorted(buf)[(Len(buf) \div 2) + 1]

(* Reading(raw=int(raw), grams=grams_smoothed, ...): int() cuts towards 0 *)
IntOf(q) == IF Num(q) >= 0 THEN Num(q) \div Den(q) ELSE -((-Num(q)) \div Den(q))
Reading(raw, grams) == [raw |-> IntOf(raw), grams |-> grams]

----------------------------------------------------------------------------
(* HX711ReaderThread._run, thread i of reader R.                           *)
(* pc: "top" at the while test, "read" in read_average, "cb" in the        *)
(* callback, "err" in the except clause (error_callback), "esleep" in the  *)
(* time.sleep(interval) of the except clause, "sleep" in the one at the    *)
(* end of the loop body, "dead" after the function returned or was left by *)
(* an exception.                                                           *)

(* What the callbacks given to the reader may do: the front ends' callbacks *)
(* return; a bare client's callback may also raise or call reader.stop()    *)
CallbackBehaviours == IF ui = "lib" THEN {"return", "raise", "stop"} ELSE {"return"}
ErrorCallbackBehaviours == IF ui = "lib" THEN {"return", "stop"} ELSE {"return"}

(* while not self._stop.is_set(), without the test *)
LoopTest_IgnoresStop(R, i) == [R EXCEPT !.threads[i].pc = "read"]

(* while not self._stop.is_set(): t0 = time.time() *)
LoopTest(R, i) == [R EXCEPT !.threads[i].pc = IF R.stop THEN "dead" ELSE "read"]

(* the try block without its except clause: an error ends the thread *)
TickRead_NoExcept(R, i, out) ==
    [R EXCEPT !.threads[i].pc = IF Raised(out) THEN "dead" ELSE "cb"]

(* raw = self.hx.read_average(self.samples) ... up to the callback; out is *)
(* the outcome of read_average                                             *)
TickRead(R, i, out) ==
    [R EXCEPT !.threads[i].pc = IF Raised(out) THEN "err" ELSE "cb"]

(* stop() called on the reader's own thread i: the flag is set, then       *)
(* self._thread.join() is refused by Thread.join with a RuntimeError when  *)
(* self._thread is the calling thread                                      *)
StopFromThread(R, i) == IF i = Len(R.threads) THEN "raised" ELSE "returned"

(* self.callback(Reading(...)), the callback doing b *)
TickCallback(R, i, b) ==
    CASE b = "return" -> [R EXCEPT !.threads[i].pc = "sleep"]
      [] b = "raise"  -> [R EXCEPT !.threads[i].pc = "err"]
      [] b = "stop"   -> [R EXCEPT !.stop = TRUE,
                                   !.threads[i].cbStop = StopFromThread(R, i),
                                   !.threads[i].pc =
                                       IF StopFromThread(R, i) = "raised" THEN "err" ELSE "sleep"]

(* except Exception as exc: self.error_callback(exc), the callback doing   *)
(* b; an exception raised inside the except clause leaves _run             *)
TickOnError(R, i, b) ==
    CASE b = "return" -> [R EXCEPT !.threads[i].pc = "esleep"]
      [] b = "stop"   -> [R EXCEPT !.stop = TRUE,
                                   !.threads[i].cbStop = StopFromThread(R, i),
                                   !.threads[i].pc =
                                       IF StopFromThread(R, i) = "raised" THEN "dead" ELSE "esleep"]

(* time.sleep(self.interval), in the except clause (then continue) or at  *)
(* the end of the loop body: back to the while test                        *)
TickSleep(R, i) == [R EXCEPT !.threads[i].pc = "top"]

(* The reader records one step of thread i at pc can lead to; st is the    *)
(* state of the reader's device                                            *)
StepResults(pc, R, i, st) ==
    IF R.threads[i].pc # pc /\ ~(pc = "sleep" /\ R.threads[i].pc = "esleep") THEN {}
    ELSE CASE pc = "top"   -> {LoopTest(R, i)}
           [] pc = "read"  -> {TickRead(R, i, out) : out \in ReadOutcomes(st)}
           [] pc = "cb"    -> {TickCallback(R, i, b) : b \in CallbackBehaviours}
           [] pc = "err"   -> {TickOnError(R, i, b) : b \in ErrorCallbackBehaviours}
           [] pc = "sleep" -> {TickSleep(R, i)}

(* An orphan: the reader and the state of the device it was built on *)
Orphan(R, st) == [r |-> R, dev |-> st]

(* one orphan o of the bag replaced by o2, or gone when its threads ended *)
OrphanMoved(B, o, o2) ==
    IF AliveThreads(o2.r) = {} THEN B (-) SetToBag({o})
    ELSE (B (-) SetToBag({o})) (+) SetToBag({o2})

----------------------------------------------------------------------------
(* The objects as an operation sees and changes them; ev collects the      *)
(* hardware accesses the operation makes, drift is the zero its drift      *)
(* check read, full says a bound was exceeded                              *)

World ==
    [hx |-> hx, rd |-> rd, orphans |-> orphans,
     demo_timer |-> demo_timer, is_reading |-> is_reading,
     config |-> config, gui |-> gui, cal_status |-> cal_status,
     ev |-> <<>>, drift |-> None, full |-> FALSE]

Did(W, e) == [W EXCEPT !.ev = Append(@, e)]

(* HX711(dout, pd_sck, gain) succeeding: binds the lines, power_up,        *)
(* set_gain, which reads one sample; the caller stores it in self.hx       *)
ConstructHX(W) == Did(Did([W EXCEPT !.hx = NewHX], "construct"), "read")

(* a failed HX711() that nobody hears of *)
CreateFailed_Silent(W) == Did(W, "construct_failed")

(* HX711(dout, pd_sck, gain) raising: the exception is caught and shown    *)
(* (messagebox.showerror and status_var in _create_hx, _set_status and     *)
(* errorOccurred in the Qt slots), and the caller returns                  *)
CreateFailed(W) == Did(Did(W, "construct_failed"), "error_shown")

(* HX711ReaderThread(hx=self.hx, ...) followed by reader.start() *)
ConstructReaderAndStart(W) == Did([W EXCEPT !.rd = ReaderStart(NewReader)], "start")

(* hx.read_average(n) by the calling thread, outcome out *)
ReadAverage(W, out) ==
    IF Raised(out) THEN Did(W, "read_average_raised")
    ELSE Did([W EXCEPT !.hx = Clocked(@)], "read_average")

(* tare_raw = self.hx.read_average(samples) of a tare, outcome out *)
TareRead(W, out) ==
    IF Raised(out) THEN Did(W, "tare_read_raised")
    ELSE Did([W EXCEPT !.hx = Clocked(@)], "tare_read")

(* The held reader is let go of and the device it shares with self.hx has  *)
(* become h2: while one of its threads is alive the reader stays, with the *)
(* device, among the orphans                                               *)
LetGo(W, h2) ==
    IF W.rd.st = "none" \/ AliveThreads(W.rd) = {} THEN [W EXCEPT !.rd = NoReader]
    ELSE IF BagCardinality(W.orphans) + tares >= MaxBackground THEN [W EXCEPT !.full = TRUE]
    ELSE [W EXCEPT !.rd = NoReader,
                   !.orphans = @ (+) SetToBag({Orphan(W.rd, h2.st)})]

(* The step leaves the objects as in W *)
Commit(W) ==
    /\ \E C \in {W} :
          /\ ~C.full
          /\ hx' = C.hx
          /\ rd' = C.rd
          /\ orphans' = C.orphans
          /\ demo_timer' = C.demo_timer
          /\ is_reading' = C.is_reading
          /\ config' = C.config
          /\ gui' = C.gui
          /\ cal_status' = C.cal_status
          /\ io' = C.ev
    /\ UNCHANGED <<ui, demo>>

Idle == [pc |-> "idle", op |-> "none", was |-> FALSE]
Waiting(pc, op, was) == [pc |-> pc, op |-> op, was |-> was]

----------------------------------------------------------------------------
(* lib/config_store.py *)

DefaultScale == 2280
DefaultOffset == 0
DefaultSamples == 8
DefaultKnownWeight == 1000

DEFAULT_CONFIG ==
    [scale |-> FracOfInt(DefaultScale),
     offset |-> DefaultOffset,
     samples |-> DefaultSamples,
     known_weight |-> DefaultKnownWeight,
     calibration_time |-> None,
     calibration_weight |-> None,
     last_zero_raw |-> None]

(* dict.update: the keys of e are set, the others stay *)
Update(d, e) == [k \in DOMAIN d \cup DOMAIN e |-> IF k \in DOMAIN e THEN e[k] ELSE d[k]]

(* self.config.update(updates); save_config(self.config) *)
SaveConfig(W, updates) == [W EXCEPT !.config = Update(@, updates)]

(* The entry variables as HX711App.__init__ fills them: str(config value); *)
(* a text is Some(number it parses to) or None when it does not parse      *)
GuiOf(cfg) ==
    [scale |-> Some(cfg.scale),
     offset |-> Some(cfg.offset),
     samples |-> Some(cfg.samples),
     known_weight |-> Some(cfg.known_weight)]

(* The document as cfg.get(key) sees it: every value is an Optional, None  *)
(* for JSON null.  The front ends write numbers for the keys below, which  *)
(* the configuration they hold keeps as plain numbers                      *)
NumberKeys == {"scale", "offset", "samples", "known_weight"}
Wrapped(cfg) == [k \in DOMAIN cfg |-> IF k \in NumberKeys THEN Some(cfg[k]) ELSE cfg[k]]

(* The calibration status: _set_cal_status(level, text), the text being    *)
(* the reasons joined by "; " when the level is "warn"                    *)
CalStatus(level, reasons) == [level |-> level, reasons |-> reasons]

(* age_days = (time.time() - cal_time) / 86400 if cal_time else None *)
SecondsPerDay == 86400
StaleDays == 7
AgeDays(cal_time, now) ==
    IF cal_time # 0 THEN Some(Normal(Frac(now - cal_time, SecondsPerDay))) ELSE None

(* "if age_days and age_days > 7" *)
Stale(age) == age # None /\ Num(Val(age)) # 0 /\ ~FracLe(Val(age), FracOfInt(StaleDays))

(* _eval_calibration_status (Tk) and _eval_cal_status (Qt) at time now, on *)
(* the document doc: "bad" when calibration_time, scale or offset is None, *)
(* "warn" when the calibration is more than 7 days old, else "good"        *)
EvalCalStatus(doc, now) ==
    IF doc.calibration_time = None \/ doc.scale = None \/ doc.offset = None THEN "bad"
    ELSE IF Stale(AgeDays(Val(doc.calibration_time), now)) THEN "warn"
    ELSE "good"

(* the status _eval_calibration_status sets: one reason, the age *)
StatusOf(doc, now) ==
    CalStatus(EvalCalStatus(doc, now),
              IF EvalCalStatus(doc, now) = "warn" THEN <<"age">> ELSE <<>>)

(* self._eval_calibration_status() / self._eval_cal_status() at time now *)
EvalStatus(W, now) == [W EXCEPT !.cal_status = StatusOf(Wrapped(W.config), now)]

(* No calibration attempt on record *)
NoAttempt ==
    [cfg |-> DEFAULT_CONFIG, kw |-> None, was |-> FALSE, outcome |-> "none",
     OFFSET |-> None, SCALE |-> None, TARE_OFFSET |-> None,
     zero |-> None, measured |-> None, saved |-> None, verdict |-> "none",
     drift |-> None]

(* The record after a session start that was no part of an attempt: the    *)
(* zero its drift check read                                               *)
Started(W) == [NoAttempt EXCEPT !.drift = W.drift]

InitShared ==
    /\ orphans = EmptyBag
    /\ demo_timer = FALSE
    /\ is_reading = FALSE
    /\ config = DEFAULT_CONFIG
    /\ gui = GuiOf(DEFAULT_CONFIG)
    /\ \E now \in Times : cal_status = StatusOf(Wrapped(DEFAULT_CONFIG), now)
    /\ main = Idle
    /\ tares = 0
    /\ io = <<>>
    /\ pre = NoAttempt

----------------------------------------------------------------------------
(* The reader threads as actions *)

(* What a step of a reader thread leaves as the record of the last step *)
Loop == <<>>

(* One step, at pc, of a thread of the held reader or of an orphan; a      *)
(* read_average that returns has pulsed the clock line of the held device  *)
(* and left it low                                                         *)
ThreadStep(pc) ==
    \/ /\ rd.st = "live"
       /\ \E i \in 1..Len(rd.threads) : \E R2 \in StepResults(pc, rd, i, hx.st) :
             /\ rd' = R2
             /\ hx' = IF pc = "read" /\ R2.threads[i].pc = "cb" THEN Clocked(hx) ELSE hx
       /\ UNCHANGED orphans
    \/ /\ \E o \in BagToSet(orphans) : \E i \in 1..Len(o.r.threads) :
             \E R2 \in StepResults(pc, o.r, i, o.dev) :
                orphans' = OrphanMoved(orphans, o, [o EXCEPT !.r = R2])
       /\ UNCHANGED <<rd, hx>>

(* What a step of a reader thread leaves alone; the record of a            *)
(* calibration attempt that has ended is dropped                           *)
ThreadFrame ==
    /\ io' = Loop
    /\ pre' = IF main.pc = "idle" THEN NoAttempt ELSE pre
    /\ UNCHANGED <<ui, demo, demo_timer, config, cal_status, gui, main, tares>>

(* The error callback of the front end: HX711Controller._on_error ends     *)
(* with self._set_reading_state(False); HX711App._on_error only schedules  *)
(* a status text                                                           *)
OnError(reading) == IF ui = "qt" THEN FALSE ELSE reading

RunLoopTest == ThreadStep("top") /\ ThreadFrame /\ UNCHANGED is_reading
RunTickRead == ThreadStep("read") /\ ThreadFrame /\ UNCHANGED is_reading
RunTickCallback == ThreadStep("cb") /\ ThreadFrame /\ UNCHANGED is_reading
RunTickOnError == ThreadStep("err") /\ ThreadFrame /\ is_reading' = OnError(is_reading)
RunTickSleep == ThreadStep("sleep") /\ ThreadFrame /\ UNCHANGED is_reading

----------------------------------------------------------------------------
(* A bare client of HX711ReaderThread: one reader on one open HX711, a     *)
(* caller that calls start() and stop() in any order, and callbacks that   *)
(* may call stop() themselves.                                             *)

InitReader ==
    /\ ui = "lib"
    /\ demo = FALSE
    /\ hx = NewHX
    /\ rd = NewReader
    /\ InitShared

OnlyReaderAndMain == UNCHANGED <<ui, demo, hx, orphans, demo_timer, is_reading, config, cal_status, gui, tares, pre>>

(* reader.start() from the caller's thread *)
LibStart ==
    /\ ui = "lib"
    /\ main.pc = "idle"
    /\ rd' = ReaderStart(rd)
    /\ io' = <<"start">>
    /\ UNCHANGED main
    /\ OnlyReaderAndMain

(* reader.stop() from the caller's thread: self._stop.set(), then          *)
(* self._thread.join(timeout=1.5) when there is a thread                   *)
LibStop ==
    /\ ui = "lib"
    /\ main.pc = "idle"
    /\ rd' = ReaderStopSet(rd)
    /\ main' = IF HasThread(rd) THEN Waiting("join", "stop", FALSE) ELSE Idle
    /\ io' = <<"stop">>
    /\ OnlyReaderAndMain

(* join(timeout=1.5) returns: the thread has ended, or 1.5 s have passed   *)
(* (a tick, blocked in read() or asleep for the interval, can last longer) *)
JoinCanReturn(R) == ~Alive(CurThread(R)) \/ Alive(CurThread(R))

LibJoinReturn ==
    /\ ui = "lib"
    /\ main.pc = "join"
    /\ JoinCanReturn(rd)
    /\ main' = Idle
    /\ io' = <<"join">>
    /\ UNCHANGED rd
    /\ OnlyReaderAndMain

(* hx.close() by the client while the reader may still be running *)
LibClose ==
    /\ ui = "lib"
    /\ main.pc = "idle"
    /\ hx.st = "open"
    /\ hx' = CloseHX(hx)
    /\ io' = <<"close">>
    /\ UNCHANGED <<ui, demo, rd, orphans, demo_timer, is_reading, config, cal_status, gui, main, tares, pre>>

AnyThreadStep ==
    \/ RunLoopTest
    \/ RunTickRead
    \/ RunTickCallback
    \/ RunTickOnError
    \/ RunTickSleep

NextReader ==
    \/ LibStart
    \/ LibStop
    \/ LibJoinReturn
    \/ LibClose
    \/ RunLoopTest
    \/ RunTickRead
    \/ RunTickCallback
    \/ RunTickOnError
    \/ RunTickSleep

SpecReader == InitReader /\ [][NextReader]_vars

(* The scheduler runs every thread that can run; a read_average that       *)
(* blocks is a tick that does not terminate and is outside this fairness   *)
FairSpecReader == SpecReader /\ WF_vars(AnyThreadStep)

----------------------------------------------------------------------------
(* A bare client of one HX711: it constructs the device with some gain and *)
(* calls set_gain, read, read_average, get_grams and tare one after the    *)
(* other, while the setters may also be called during get_grams and tare   *)
(* (they are what the front ends call from other threads).  main is the    *)
(* frame of the call in progress or of the last call: its name, its        *)
(* argument, the samples read so far and what it returned.                 *)

(* the longest read_average of the client *)
MaxTimes == 3

(* Gains the client asks for: the three the amplifier has, and one it has not *)
Gains == {128, 64, 32, 16}

(* Conversions the amplifier delivers, as 24-bit patterns *)
Patterns == {0, 8388607, 8388608, 8388609, 16777215}

(* Conversions under a small load, for the calls that go on to compute     *)
(* with the average                                                        *)
Loads == {8388608, 8388609}
SampleCounts == {1, 2}

(* Conversions during the ticks of a reader *)
TickLoads == {8388608, 8388609, 8388610}

Scales == {Frac(0, 1), Frac(1, 1)}
Offsets == {Frac(0, 1), Frac(1, 1)}
TareOffsets == {Frac(0, 1), Frac(-1, 1)}

(* What a call handed back: nothing yet, a value, or an exception *)
NoResult == [kind |-> "none", v |-> 0]
Returned(v) == [kind |-> "value", v |-> v]
RaisedError(e) == [kind |-> "raised", v |-> e]

Frame(pc, op, arg, ret) ==
    [pc |-> pc, op |-> op, arg |-> arg, i |-> 0, total |-> 0, seen |-> <<>>, ret |-> ret]

(* HX711(dout, pd_sck, gain): GAIN = 0, OFFSET = 0, SCALE = 1,             *)
(* TARE_OFFSET = 0, then set_gain(gain); the numbers are kept as fractions *)
HX711(gain) ==
    set_gain([st |-> "open", GAIN |-> 0,
              OFFSET |-> FracOfInt(NewHX.OFFSET),
              SCALE |-> NewHX.SCALE,
              TARE_OFFSET |-> FracOfInt(NewHX.TARE_OFFSET),
              DOUT_closes |-> <<>>,
              PD_SCK_closes |-> <<>>], gain)

(* dev.close() of a line, which may raise; the exception is swallowed *)
LineClose(line, raises) == IF line \in raises THEN "raised" ELSE "closed"
Lines == {"DOUT", "PD_SCK"}

(* a close without the _closed flag: every call closes both lines again *)
close_NoFlag(h, raises) ==
    IF Len(h.DOUT_closes) >= 2 THEN h
    ELSE [h EXCEPT !.st = "closed",
                   !.DOUT_closes = Append(@, LineClose("DOUT", raises)),
                   !.PD_SCK_closes = Append(@, LineClose("PD_SCK", raises))]

(* HX711.close: "if self._closed: return", then the flag, then dev.close() *)
(* for DOUT and PD_SCK, each in its own try; st = "closed" is the flag,    *)
(* and each line keeps the outcomes of the close() calls it received       *)
close(h, raises) ==
    IF h.st = "closed" THEN h
    ELSE [h EXCEPT !.st = "closed",
                   !.DOUT_closes = Append(@, LineClose("DOUT", raises)),
                   !.PD_SCK_closes = Append(@, LineClose("PD_SCK", raises))]

(* the close() calls the lines received between h and h2 *)
CloseCalls(h, h2) ==
    (IF Len(h2.DOUT_closes) > Len(h.DOUT_closes) THEN <<"DOUT.close">> ELSE <<>>)
    \o (IF Len(h2.PD_SCK_closes) > Len(h.PD_SCK_closes) THEN <<"PD_SCK.close">> ELSE <<>>)

InitDevice ==
    /\ ui = "dev"
    /\ demo = FALSE
    /\ \E gain \in Gains :
          /\ hx = HX711(gain)
          /\ main = Frame("idle", "__init__", gain, NoResult)
    /\ rd = NoReader
    /\ orphans = EmptyBag
    /\ demo_timer = FALSE
    /\ is_reading = FALSE
    /\ config = DEFAULT_CONFIG
    /\ gui = GuiOf(DEFAULT_CONFIG)
    /\ cal_status = CalStatus("bad", <<>>)
    /\ tares = 0
    /\ io = <<"construct", "read">>
    /\ pre = NoAttempt

OnlyDevice == UNCHANGED <<ui, demo, rd, orphans, demo_timer, is_reading, config, cal_status, gui, tares, pre>>

(* A setter called with argument arg: between two calls of the client it   *)
(* is the last call; during get_grams or tare it comes from another thread *)
DevSetter(op, arg) ==
    /\ ui \in {"dev", "tick"}
    /\ main.pc = "idle" \/ main.op # "read_average"
    /\ main' = IF main.pc = "idle" THEN Frame("idle", op, arg, NoResult) ELSE main
    /\ io' = <<op>>
    /\ OnlyDevice

(* hx.set_gain(gain) *)
DevSetGain ==
    /\ ui = "dev"
    /\ main.pc = "idle"
    /\ hx.st = "open"
    /\ \E gain \in Gains :
          /\ hx' = set_gain(hx, gain)
          /\ main' = Frame("idle", "set_gain", gain, NoResult)
    /\ io' = <<"read">>
    /\ OnlyDevice

(* hx.set_scale(scale) *)
DevSetScale == \E scale \in Scales : hx' = set_scale(hx, scale) /\ DevSetter("set_scale", scale)

(* hx.set_offset(offset) *)
DevSetOffset == \E offset \in Offsets : hx' = set_offset(hx, offset) /\ DevSetter("set_offset", offset)

(* hx.set_tare_offset(t) and hx.clear_tare() *)
DevSetTareOffset ==
    \E t \in TareOffsets : hx' = set_tare_offset(hx, t) /\ DevSetter("set_tare_offset", t)

DevClearTare ==
    /\ hx' = [clear_tare(hx) EXCEPT !.TARE_OFFSET = FracOfInt(@)]
    /\ DevSetter("clear_tare", 0)

(* hx.read() while the amplifier holds the conversion p *)
DevRead ==
    /\ ui = "dev"
    /\ main.pc = "idle"
    /\ hx.st = "open"
    /\ \E p \in Patterns : main' = Frame("idle", "read", p, Returned(read(p)))
    /\ io' = <<"read">>
    /\ UNCHANGED hx
    /\ OnlyDevice

(* hx.read_average(times), hx.get_grams(times), hx.tare(times): the call   *)
(* is made; its reads follow one by one                                    *)
DevCall(op, counts) ==
    /\ ui = "dev"
    /\ main.pc = "idle"
    /\ \E times \in counts : main' = Frame("avg", op, times, NoResult)
    /\ io' = <<>>
    /\ UNCHANGED hx
    /\ OnlyDevice

DevReadAverage == DevCall("read_average", 0..MaxTimes) /\ main'.op = "read_average"
DevGetGrams == DevCall("get_grams", SampleCounts) /\ main'.op = "get_grams"
DevTare == DevCall("tare", SampleCounts) /\ main'.op = "tare"

(* total += self.read(): one turn of the loop of read_average *)
DevSample ==
    /\ ui \in {"dev", "tick", "cnt"}
    /\ main.pc = "avg"
    /\ main.i < main.arg
    /\ hx.st = "open"
    /\ \E p \in (IF main.op = "read_average" THEN Patterns
                 ELSE IF main.op = "tick" THEN TickLoads ELSE Loads) :
          main' = [main EXCEPT !.i = @ + 1, !.total = @ + read(p), !.seen = Append(@, read(p))]
    /\ io' = <<"read">>
    /\ UNCHANGED hx
    /\ OnlyDevice

(* self.read() raises (an I/O error of the line, or the lines are closed): *)
(* the call ends with it                                                   *)
DevSampleRaises ==
    /\ ui \in {"dev", "tick", "cnt"}
    /\ main.pc = "avg"
    /\ main.i < main.arg
    /\ main' = [main EXCEPT !.pc = "idle", !.ret = RaisedError("IOError")]
    /\ io' = <<"read_raised">>
    /\ UNCHANGED hx
    /\ OnlyDevice

(* the loop of read_average is over: total / times, and what the caller    *)
(* (read_average itself, get_grams or tare) makes of it                    *)
DevReturn ==
    /\ ui = "dev"
    /\ main.pc = "avg"
    /\ main.i = main.arg
    /\ \E avg \in {read_average(main.total, main.arg)} :
          IF avg = None
          THEN /\ main' = [main EXCEPT !.pc = "idle", !.ret = RaisedError("ZeroDivisionError")]
               /\ UNCHANGED hx
          ELSE CASE main.op = "read_average" ->
                      /\ main' = [main EXCEPT !.pc = "idle", !.ret = Returned(Val(avg))]
                      /\ UNCHANGED hx
                 [] main.op = "get_grams" ->
                      /\ \E g \in {get_grams(hx, Val(avg))} :
                            main' = [main EXCEPT !.pc = "idle",
                                                 !.ret = IF g = None
                                                         THEN RaisedError("ZeroDivisionError")
                                                         ELSE Returned(Val(g))]
                      /\ UNCHANGED hx
                 [] main.op = "tare" ->
                      /\ main' = [main EXCEPT !.pc = "idle", !.ret = Returned(Val(avg))]
                      /\ hx' = tare(hx, Val(avg))
    /\ io' = <<main.op>>
    /\ OnlyDevice

(* hx.close(), between two calls of the client; raises are the lines whose *)
(* close() raises.  The reads of a closed device raise, and set_gain and   *)
(* read are called on an open device only                                  *)
DevClose ==
    /\ ui = "dev"
    /\ main.pc = "idle"
    /\ \E raises \in SUBSET Lines :
          /\ hx' = close(hx, raises)
          /\ io' = CloseCalls(hx, hx')
    /\ main' = Frame("idle", "close", 0, Returned(None))
    /\ OnlyDevice

NextDevice ==
    \/ DevClose
    \/ DevSetGain
    \/ DevSetScale
    \/ DevSetOffset
    \/ DevSetTareOffset
    \/ DevClearTare
    \/ DevRead
    \/ DevReadAverage
    \/ DevGetGrams
    \/ DevTare
    \/ DevSample
    \/ DevSampleRaises
    \/ DevReturn

SpecDevice == InitDevice /\ [][NextDevice]_vars

----------------------------------------------------------------------------
(* The ticks of one HX711ReaderThread, one after the other, on an HX711    *)
(* whose scale may be set in between and during a tick.  rd has, besides   *)
(* the fields of the reader, self.samples, self._gram_buffer and, for the  *)
(* record, pushed: every grams value appended so far.  The buffer belongs  *)
(* to the HX711ReaderThread: start() does not clear it, so the ticks of    *)
(* the threads it starts one after the other all append to the same one.   *)

(* the ticks of the reader that are followed *)
MaxTicks == 4

InitTick ==
    /\ ui = "tick"
    /\ demo = FALSE
    /\ hx = HX711(128)
    /\ main = Frame("idle", "__init__", 128, NoResult)
    /\ rd = [samples |-> 1, gram_buffer |-> <<>>, pushed |-> <<>>] @@ NewReader
    /\ orphans = EmptyBag
    /\ demo_timer = FALSE
    /\ is_reading = FALSE
    /\ config = DEFAULT_CONFIG
    /\ gui = GuiOf(DEFAULT_CONFIG)
    /\ cal_status = CalStatus("bad", <<>>)
    /\ tares = 0
    /\ io = <<"construct", "read">>
    /\ pre = NoAttempt

(* _run, line 189: raw = self.hx.read_average(self.samples) is called *)
TickBegin ==
    /\ ui = "tick"
    /\ main.pc = "idle"
    /\ Len(rd.pushed) < MaxTicks
    /\ main' = Frame("avg", "tick", rd.samples, NoResult)
    /\ io' = <<>>
    /\ UNCHANGED hx
    /\ OnlyDevice

(* _run, lines 189-197: read_average returns; the grams, the buffer, the   *)
(* median and the Reading handed to the callback                           *)
TickEmit ==
    /\ ui = "tick"
    /\ main.pc = "avg"
    /\ main.i = main.arg
    /\ \E raw \in {read_average(main.total, main.arg)} :
          IF raw = None
          THEN /\ main' = [main EXCEPT !.pc = "idle", !.ret = RaisedError("ZeroDivisionError")]
               /\ UNCHANGED rd
          ELSE \E grams \in {TickGrams(hx, Val(raw))} :
               \E buf \in {BufferAppend(rd.gram_buffer, grams)} :
                  /\ rd' = [rd EXCEPT !.gram_buffer = buf, !.pushed = Append(@, grams)]
                  /\ main' = [main EXCEPT !.pc = "idle",
                                          !.ret = Returned(Reading(Val(raw), Smoothed(buf)))]
    /\ io' = <<"callback">>
    /\ UNCHANGED <<ui, demo, hx, orphans, demo_timer, is_reading, config, cal_status, gui, tares, pre>>

NextTick ==
    \/ TickBegin
    \/ DevSample
    \/ DevSampleRaises
    \/ TickEmit
    \/ DevSetScale

SpecTick == InitTick /\ [][NextTick]_vars

----------------------------------------------------------------------------
(* The read_average calls of the two front ends and of the reader, with    *)
(* the sample counts they pass, on a configuration as load_config returns  *)
(* it                                                                      *)

(* "samples" values a configuration file can hold, and texts of the        *)
(* samples entry (None: not a number)                                      *)
StoredSamples == {-1, 0, 1, 2, 4}
SamplesTexts == {None} \cup {Some(n) : n \in StoredSamples}

(* a sample count taken from the entry as it is *)
TkStartSamples_NoFloor(g) == Val(g.samples)

(* start_reading: samples = max(1, int(self.samples_var.get())) *)
TkStartSamples(g) == Max(1, Val(g.samples))

(* start_reading: zero_samples = max(3, samples) *)
TkDriftSamples(samples) == Max(3, samples)

(* do_tare and _calibrate_flow: samples = max(3, int(self.samples_var.get())) *)
TkTareSamples(g) == Max(3, Val(g.samples))
TkCalibrateSamples(g) == Max(3, Val(g.samples))

(* HX711Controller.tare and _calibrate_internal:                           *)
(* samples = max(3, int(cfg.get("samples", 8)))                            *)
QtTareSamples(cfg) == Max(3, cfg.samples)
QtCalibrateSamples(cfg) == Max(3, cfg.samples)

InitSamples ==
    /\ ui = "cnt"
    /\ demo = FALSE
    /\ hx = HX711(128)
    /\ main = Frame("idle", "__init__", 128, NoResult)
    /\ rd = NoReader
    /\ orphans = EmptyBag
    /\ demo_timer = FALSE
    /\ is_reading = FALSE
    /\ \E n \in StoredSamples, z \in {None, Some(0)} :
          config = [DEFAULT_CONFIG EXCEPT !.samples = n, !.last_zero_raw = z]
    /\ gui = GuiOf(config)
    /\ cal_status = CalStatus("bad", <<>>)
    /\ tares = 0
    /\ io = <<"construct", "read">>
    /\ pre = NoAttempt

(* read_average(times) is called by op *)
CntCall(op, times) ==
    /\ main' = Frame("avg", op, times, NoResult)
    /\ io' = <<>>
    /\ UNCHANGED <<ui, demo, hx, orphans, demo_timer, is_reading, cal_status, tares, pre>>

(* The operator edits the samples entry *)
CntEdit ==
    /\ ui = "cnt"
    /\ main.pc = "idle"
    /\ \E t \in SamplesTexts : t # gui.samples /\ gui' = [gui EXCEPT !.samples = t]
    /\ main' = Frame("idle", "edit", 0, NoResult)
    /\ io' = <<>>
    /\ UNCHANGED <<ui, demo, hx, rd, orphans, demo_timer, is_reading, config, cal_status, tares, pre>>

(* HX711App.start_reading as far as the sample count goes: the drift read  *)
(* when a calibration zero is stored, the save, and the reader built with  *)
(* samples=samples                                                         *)
CntTkStartReading ==
    /\ ui = "cnt"
    /\ main.pc = "idle"
    /\ gui.samples # None
    /\ IF config.last_zero_raw # None
       THEN CntCall("drift", TkDriftSamples(TkStartSamples(gui)))
       ELSE /\ main' = Frame("idle", "start_reading", 0, NoResult)
            /\ io' = <<>>
            /\ UNCHANGED <<ui, demo, hx, orphans, demo_timer, is_reading, cal_status, tares, pre>>
    /\ config' = [config EXCEPT !.samples = TkStartSamples(gui)]
    /\ rd' = [samples |-> TkStartSamples(gui)] @@ ReaderStart(NewReader)
    /\ UNCHANGED gui

(* _run: raw = self.hx.read_average(self.samples) *)
CntTick ==
    /\ ui = "cnt"
    /\ main.pc = "idle"
    /\ rd.st = "live"
    /\ CntCall("tick", rd.samples)
    /\ UNCHANGED <<rd, config, gui>>

(* do_tare *)
CntTkTare ==
    /\ ui = "cnt"
    /\ main.pc = "idle"
    /\ gui.samples # None
    /\ CntCall("tk_tare", TkTareSamples(gui))
    /\ UNCHANGED <<rd, config, gui>>

(* _calibrate_flow: offset = hx.read_average(samples), and the same count  *)
(* for the measuring read                                                  *)
CntTkCalibrate ==
    /\ ui = "cnt"
    /\ main.pc = "idle"
    /\ gui.samples # None
    /\ CntCall("tk_calibrate", TkCalibrateSamples(gui))
    /\ UNCHANGED <<rd, config, gui>>

(* HX711Controller.tare *)
CntQtTare ==
    /\ ui = "cnt"
    /\ main.pc = "idle"
    /\ CntCall("qt_tare", QtTareSamples(config))
    /\ UNCHANGED <<rd, config, gui>>

(* HX711Controller._calibrate_internal *)
CntQtCalibrate ==
    /\ ui = "cnt"
    /\ main.pc = "idle"
    /\ CntCall("qt_calibrate", QtCalibrateSamples(config))
    /\ UNCHANGED <<rd, config, gui>>

(* read_average returns total / times, or raises ZeroDivisionError *)
CntReturn ==
    /\ ui = "cnt"
    /\ main.pc = "avg"
    /\ main.i = main.arg
    /\ \E avg \in {read_average(main.total, main.arg)} :
          main' = [main EXCEPT !.pc = "idle",
                               !.ret = IF avg = None THEN RaisedError("ZeroDivisionError")
                                       ELSE Returned(Val(avg))]
    /\ io' = <<"read_average">>
    /\ UNCHANGED hx
    /\ OnlyDevice

NextSamples ==
    \/ CntEdit
    \/ CntTkStartReading
    \/ CntTick
    \/ CntTkTare
    \/ CntTkCalibrate
    \/ CntQtTare
    \/ CntQtCalibrate
    \/ DevSample
    \/ DevSampleRaises
    \/ CntReturn

SpecSamples == InitSamples /\ [][NextSamples]_vars

----------------------------------------------------------------------------
(* The configuration file: config.json is missing, cannot be read, is not  *)
(* JSON, holds a JSON value that is not an object, or holds an object.  An *)
(* application starts and loads it (load_config), evaluates the            *)
(* calibration status on what it loaded, and saves changes                 *)
(* (_save_config); a later start loads what was saved.  config is the      *)
(* document in memory, every value an Optional (see Wrapped); main holds   *)
(* the file, the clock of the last evaluation and the last updates.        *)

(* The keys a stored object may hold, "language" being one load_config     *)
(* has no default for, and the values it may give them (None: null)        *)
DocKeys == {"scale", "offset", "calibration_time", "language"}
DocValues(k) ==
    CASE k = "scale" -> {None, Some(Frac(100, 1))}
      [] k = "offset" -> {None, Some(7)}
      [] k = "calibration_time" -> {None, Some(0), Some(1)}
      [] k = "language" -> {Some("sv")}

(* per key: None when the object does not hold it, else Some(its value) *)
Held(k) == {None} \cup {Some(v) : v \in DocValues(k)}
DocChoices ==
    [scale : Held("scale"), offset : Held("offset"),
     calibration_time : Held("calibration_time"), language : Held("language")]
DocOf(c) == [k \in {x \in DocKeys : c[x] # None} |-> Val(c[k])]
Docs == {DocOf(c) : c \in DocChoices}

NoDoc == [k \in {} |-> None]
File(kind, doc) == [kind |-> kind, doc |-> doc]
Files ==
    {File(kind, NoDoc) : kind \in {"missing", "unreadable", "invalid", "non_object"}}
    \cup {File("object", d) : d \in Docs}

(* time.time() when the status is evaluated: 7 days, and 7 days and a      *)
(* second, after a calibration_time of 1                                  *)
EvalTimes == {1 + StaleDays * SecondsPerDay, 2 + StaleDays * SecondsPerDay}

(* What _save_config is given *)
Updates == {[language |-> Some("en")], [scale |-> Some(Frac(50, 1)), calibration_time |-> Some(1)]}

(* a load_config that returns the stored object as it is *)
load_config_NoDefaults(file) ==
    IF file.kind = "object" THEN file.doc ELSE Wrapped(DEFAULT_CONFIG)

(* load_config: the defaults, updated with the stored object when the file *)
(* exists, parses and holds an object; any exception is swallowed          *)
load_config(file) ==
    IF file.kind = "object" THEN Update(Wrapped(DEFAULT_CONFIG), file.doc)
    ELSE Wrapped(DEFAULT_CONFIG)

(* save_config(cfg): json.dump of the whole document *)
save_config(cfg) == File("object", cfg)

CfgFrame(pc, file, now, updates) == [pc |-> pc, file |-> file, now |-> now, updates |-> updates]

InitConfig ==
    /\ ui = "cfg"
    /\ demo = FALSE
    /\ hx = NoHX
    /\ rd = NoReader
    /\ orphans = EmptyBag
    /\ demo_timer = FALSE
    /\ is_reading = FALSE
    /\ config = Wrapped(DEFAULT_CONFIG)
    /\ gui = GuiOf(DEFAULT_CONFIG)
    /\ cal_status = CalStatus("good", <<>>)
    /\ \E file \in Files : main = CfgFrame("start", file, 0, NoDoc)
    /\ tares = 0
    /\ io = <<>>
    /\ pre = NoAttempt

OnlyConfig == UNCHANGED <<ui, demo, hx, rd, orphans, demo_timer, is_reading, gui, tares, pre>>

(* self.config = load_config(), at the start of an application *)
CfgLoad ==
    /\ ui = "cfg"
    /\ config' = load_config(main.file)
    /\ main' = CfgFrame("loaded", main.file, 0, NoDoc)
    /\ io' = <<"load_config">>
    /\ UNCHANGED cal_status
    /\ OnlyConfig

(* _eval_calibration_status() / _eval_cal_status() while the clock reads now *)
CfgEval ==
    /\ ui = "cfg"
    /\ main.pc = "loaded"
    /\ \E now \in EvalTimes :
          /\ cal_status' = StatusOf(config, now)
          /\ main' = CfgFrame("loaded", main.file, now, NoDoc)
    /\ io' = <<"eval">>
    /\ UNCHANGED config
    /\ OnlyConfig

(* _save_config(updates) *)
CfgSave ==
    /\ ui = "cfg"
    /\ main.pc = "loaded"
    /\ \E updates \in Updates :
          /\ config' = Update(config, updates)
          /\ main' = CfgFrame("loaded", save_config(config'), 0, updates)
    /\ io' = <<"save_config">>
    /\ UNCHANGED cal_status
    /\ OnlyConfig

NextConfig ==
    \/ CfgLoad
    \/ CfgEval
    \/ CfgSave

SpecConfig == InitConfig /\ [][NextConfig]_vars

----------------------------------------------------------------------------
(* lib/app_ui.py: class HX711App (Tk front end) *)

(* Texts the operator can type into the entries (numpad or keyboard): a    *)
(* text is Some(number it parses to) or None when it does not parse        *)
ScaleTexts == {Some(Frac(0, 1))}
KnownWeightTexts == {None, Some(0), Some(1000)}

(* f"{scale:.6f}" read back by float(): scale rounded to 6 decimals *)
Fmt6(q) ==
    LET scaled == Num(q) * 1000000
        fl     == scaled \div Den(q)
        rem    == scaled % Den(q)
    IN  Normal(Frac(IF 2 * rem >= Den(q) THEN fl + 1 ELSE fl, 1000000))

(* str(offset) read back by float(): the same number *)
StrFloat(x) == Some(x)

(* the try block of start_reading: every field parses *)
StartInputsParse(g) ==
    /\ g.scale # None
    /\ g.offset # None
    /\ g.samples # None
    /\ g.known_weight # None

(* the try block of _calibrate_flow *)
CalInputsParse(g) == g.samples # None /\ g.known_weight # None

(* stop_reading that forgets to close the device *)
TkStopReadingTail_NoClose(W) == [LetGo(W, W.hx) EXCEPT !.hx = NoHX]

(* stop_reading after reader.stop() has returned: self.reader = None;      *)
(* self.hx.close(); self.hx = None                                         *)
TkStopReadingTail(W) ==
    IF W.hx.st = "none" THEN LetGo(W, W.hx)
    ELSE With(CloseHX(W.hx), LAMBDA h2 : Did([LetGo(W, h2) EXCEPT !.hx = NoHX], "close"))

(* hx.set_scale(scale); hx.set_offset(offset); hx.clear_tare() with the    *)
(* numbers parsed from the entries                                         *)
TkApplyEntries(W) ==
    [W EXCEPT !.hx = clear_tare(set_offset(set_scale(@, Val(W.gui.scale)), Val(W.gui.offset)))]

(* drift_grams = abs((current_zero - offset) / max(scale, 1e-9));          *)
(* drift_grams > drift_limit.  The divisor is positive, so the test is     *)
(* |current_zero - offset| > 5.0 * max(scale, 1e-9), which is how it is    *)
(* computed here; OFFSET and current_zero are whole numbers                *)
DriftLimit == 5
DriftExceeds_AtLimit(h, current_zero) ==
    FracLe(FracMul(FracOfInt(DriftLimit), FracMax(h.SCALE, Epsilon)),
           FracOfInt(Abs(current_zero - h.OFFSET)))

DriftExceeds(h, current_zero) ==
    ~FracLe(FracOfInt(Abs(current_zero - h.OFFSET)),
            FracMul(FracOfInt(DriftLimit), FracMax(h.SCALE, Epsilon)))

(* the zero-drift check: one read when a calibration zero is stored, and   *)
(* the status "warn" with the zero-drift reason when the drift exceeds the *)
(* limit; what the check raises is ignored                                 *)
TkDriftCheck(W, out) ==
    IF W.config.last_zero_raw = None THEN W
    ELSE With([ReadAverage(W, out) EXCEPT !.drift = out], LAMBDA W1 :
         IF ~Raised(out) /\ DriftExceeds(W1.hx, Val(out))
         THEN [W1 EXCEPT !.cal_status = CalStatus("warn", <<"zero">>)]
         ELSE W1)

(* self._save_config({... "scale": scale, "offset": offset, ...}) *)
TkSaveEntries(W) ==
    SaveConfig(W, [scale |-> Val(W.gui.scale),
                   offset |-> Val(W.gui.offset),
                   samples |-> TkStartSamples(W.gui),
                   known_weight |-> Val(W.gui.known_weight)])

(* a start_reading that gives up when the drift read raises *)
TkStartReadingRest_DriftBlocks(W, c) ==
    IF c.ctor = "fail" THEN CreateFailed(W)
    ELSE With(ConstructHX(W), LAMBDA W1 :
         With(TkApplyEntries(W1), LAMBDA W2 :
         With(TkDriftCheck(W2, c.drift), LAMBDA W3 :
         IF W3.config.last_zero_raw # None /\ Raised(c.drift) THEN W3
         ELSE With(TkSaveEntries(W3), LAMBDA W4 : ConstructReaderAndStart(W4)))))

(* start_reading from "hx = self._create_hx(...)" to its end; c.ctor says  *)
(* whether HX711() succeeds, c.drift is the outcome of the drift read      *)
TkStartReadingRest(W, c) ==
    IF c.ctor = "fail" THEN CreateFailed(W)
    ELSE With(ConstructHX(W), LAMBDA W1 :
         With(TkApplyEntries(W1), LAMBDA W2 :
         With(TkDriftCheck(W2, c.drift), LAMBDA W3 :
         With(TkSaveEntries(W3), LAMBDA W4 : ConstructReaderAndStart(W4)))))

(* start_reading called with no reader running (from _calibrate_flow) *)
TkStartReadingNow(W, c) ==
    IF ~StartInputsParse(W.gui) THEN W
    ELSE With(TkStopReadingTail(W), LAMBDA W1 : TkStartReadingRest(W1, c))

Ctors == {"ok", "fail"}
StartChoices == [ctor : Ctors, drift : OpenOutcomes]

(* The operator edits an entry *)
TkEdit ==
    /\ ui = "tk"
    /\ main.pc = "idle"
    /\ \/ \E t \in ScaleTexts : t # gui.scale /\ gui' = [gui EXCEPT !.scale = t]
       \/ \E t \in KnownWeightTexts : t # gui.known_weight /\ gui' = [gui EXCEPT !.known_weight = t]
    /\ io' = <<>>
    /\ pre' = NoAttempt
    /\ UNCHANGED <<ui, demo, hx, rd, orphans, demo_timer, is_reading, config, cal_status, main, tares>>

(* reader.stop() up to the join, inside stop_reading *)
StopReader(W) == [W EXCEPT !.rd = ReaderStopSet(@)]

(* HX711App.start_reading, up to the join of stop_reading when a reader    *)
(* exists, to its end otherwise                                            *)
TkStartReading ==
    /\ ui = "tk"
    /\ main.pc = "idle"
    /\ IF ~StartInputsParse(gui)
       THEN Commit(World) /\ main' = Idle /\ pre' = NoAttempt
       ELSE IF rd.st # "none"
       THEN Commit(StopReader(World))
            /\ main' = Waiting("join", "start_reading", FALSE)
            /\ pre' = NoAttempt
       ELSE \E c \in StartChoices : \E W1 \in {TkStopReadingTail(World)} :
            \E W2 \in {TkStartReadingRest(W1, c)} :
               Commit(W2) /\ main' = Idle /\ pre' = Started(W2)
    /\ UNCHANGED tares

(* HX711App.stop_reading *)
TkStopReading ==
    /\ ui = "tk"
    /\ main.pc = "idle"
    /\ IF rd.st # "none"
       THEN Commit(StopReader(World))
            /\ main' = Waiting("join", "stop_reading", FALSE)
       ELSE Commit(TkStopReadingTail(World)) /\ main' = Idle
    /\ pre' = NoAttempt
    /\ UNCHANGED tares

(* What is on record about a calibration attempt: the configuration and   *)
(* the device's OFFSET/SCALE before it, the weight asked for, whether      *)
(* sampling was on, how far the attempt got, the average it read for the   *)
(* zero and the TARE_OFFSET the device had just then, the average it read  *)
(* for the weight, the configuration as it saved it, the calibration       *)
(* status it then set, and the zero read by the drift check of the session *)
(* start that followed                                                     *)
Attempt(kw, outcome) ==
    [cfg |-> config, kw |-> kw, was |-> rd.st # "none" \/ (ui = "qt" /\ demo_timer),
     outcome |-> outcome,
     OFFSET |-> IF hx.st = "none" THEN None ELSE Some(hx.OFFSET),
     SCALE |-> IF hx.st = "none" THEN None ELSE Some(hx.SCALE),
     TARE_OFFSET |-> None,
     zero |-> None, measured |-> None, saved |-> None, verdict |-> "none",
     drift |-> None]

ZeroRead(p, z, h) == [p EXCEPT !.zero = Some(z), !.TARE_OFFSET = Some(h.TARE_OFFSET)]
MeasureRead(p, m) == [p EXCEPT !.measured = Some(m)]
SavedAs(p, cfg, verdict) == [p EXCEPT !.saved = Some(cfg), !.verdict = verdict]

EndedFrom(p, outcome) == pre' = [p EXCEPT !.outcome = outcome]
Ended(outcome) == EndedFrom(pre, outcome)

(* a restart that does not look at was_reading *)
TkRestartIfWas_Always(W, was, p, outcome) ==
    /\ \E c \in StartChoices : \E W2 \in {TkStartReadingNow(W, c)} :
           Commit(W2) /\ EndedFrom([p EXCEPT !.drift = W2.drift], outcome)
    /\ main' = Idle

(* a return without the restart *)
TkRestartIfWas_Never(W, was, p, outcome) ==
    /\ Commit(W)
    /\ main' = Idle
    /\ EndedFrom(p, outcome)

(* "if was_reading: self.start_reading()" followed by return *)
TkRestartIfWas(W, was, p, outcome) ==
    /\ IF was
       THEN \E c \in StartChoices : \E W2 \in {TkStartReadingNow(W, c)} :
               Commit(W2) /\ EndedFrom([p EXCEPT !.drift = W2.drift], outcome)
       ELSE Commit(W) /\ EndedFrom(p, outcome)
    /\ main' = Idle

(* _calibrate_flow with the known_weight test left out *)
TkCalibrateChecks_Late(g) == CalInputsParse(g)

(* _calibrate_flow up to "was_reading = ...": the inputs parse and the     *)
(* known weight is greater than zero                                       *)
TkCalibrateChecks(g) == CalInputsParse(g) /\ Val(g.known_weight) > 0

(* hx.set_offset(offset); hx.clear_tare(); self.offset_var.set(str(offset)) *)
TkZeroed(W, z) ==
    [W EXCEPT !.hx = clear_tare(set_offset(@, z)), !.gui.offset = StrFloat(z)]

(* _calibrate_flow from stop_reading's tail to the first dialog: create    *)
(* the device, read the zero, set it as OFFSET and show it in offset_var;  *)
(* p is the record of the attempt                                          *)
TkCalibrateZero(W, was, p) ==
    \E ctor \in Ctors, z \in OpenOutcomes : \E W1 \in {TkStopReadingTail(W)} :
       IF ctor = "fail"
       THEN Commit(CreateFailed(W1))
            /\ main' = Idle /\ EndedFrom(p, "init_failed")
       ELSE \E W3 \in {ReadAverage(ConstructHX(W1), z)} :
               IF Raised(z)
               THEN Commit(W3) /\ main' = Idle /\ EndedFrom(p, "aborted")
               ELSE Commit(TkZeroed(W3, Val(z)))
                    /\ main' = Waiting("cal_info", "calibrate", was)
                    /\ EndedFrom(ZeroRead(p, Val(z), W3.hx), "zeroed")

(* HX711App._calibrate_flow, from the button to the join of stop_reading   *)
(* when a reader exists, to the first dialog otherwise                     *)
TkCalibrate ==
    /\ ui = "tk"
    /\ main.pc = "idle"
    /\ IF ~TkCalibrateChecks(gui)
       THEN /\ Commit(World)
            /\ main' = Idle
            /\ pre' = Attempt(gui.known_weight,
                              IF CalInputsParse(gui) THEN "rejected" ELSE "invalid_input")
       ELSE IF rd.st # "none"
       THEN /\ Commit(StopReader(World))
            /\ main' = Waiting("join", "calibrate", TRUE)
            /\ pre' = Attempt(gui.known_weight, "stopping")
       ELSE TkCalibrateZero(World, FALSE, Attempt(gui.known_weight, "started"))
    /\ UNCHANGED tares

(* measured = abs(hx.read_average(samples) - hx.get_offset()) *)
Measured(h, m) == Abs(m - h.OFFSET)

(* messagebox.showinfo is dismissed: the first measurement and its test *)
TkCalibrateInfoOk ==
    /\ ui = "tk"
    /\ main.pc = "cal_info"
    /\ \E m \in ReadOutcomes(hx.st) : \E W1 \in {ReadAverage(World, m)} :
          IF Raised(m)
          THEN Commit(W1) /\ main' = Idle /\ Ended("aborted")
          ELSE IF Measured(hx, Val(m)) <= 0
          THEN TkRestartIfWas(W1, main.was, MeasureRead(pre, Val(m)), "failed")
          ELSE /\ Commit(W1)
               /\ main' = Waiting("cal_confirm", "calibrate", main.was)
               /\ Ended("awaiting")
    /\ UNCHANGED tares

(* scale = measured / known_weight if known_weight else 1.0 *)
TkScale(measured, kw) == IF kw = 0 THEN FracOfInt(1) ELSE Normal(Frac(measured, kw))

(* the save of _calibrate_flow without "calibration_weight" and            *)
(* "last_zero_raw"                                                         *)
TkCalibrated_Partial(W, scale, kw, now) ==
    SaveConfig([W EXCEPT !.hx = set_scale(@, scale), !.gui.scale = Some(Fmt6(scale))],
               [scale |-> scale,
                offset |-> W.hx.OFFSET,
                known_weight |-> kw,
                calibration_time |-> Some(now)])

(* hx.set_scale(scale); self.scale_var.set(f"{scale:.6f}"); _save_config   *)
TkCalibrated(W, scale, kw, now) ==
    SaveConfig([W EXCEPT !.hx = set_scale(@, scale), !.gui.scale = Some(Fmt6(scale))],
               [scale |-> scale,
                offset |-> W.hx.OFFSET,
                known_weight |-> kw,
                calibration_time |-> Some(now),
                calibration_weight |-> Some(kw),
                last_zero_raw |-> Some(W.hx.OFFSET)])

(* _prompt_continue returns: cancel, or the second measurement, the scale, *)
(* the save and the restart                                                *)
TkCalibrateConfirm ==
    /\ ui = "tk"
    /\ main.pc = "cal_confirm"
    /\ \/ TkRestartIfWas(World, main.was, pre, "cancelled")
       \/ \E m \in ReadOutcomes(hx.st), now \in Times : \E W1 \in {ReadAverage(World, m)} :
             IF Raised(m)
             THEN Commit(W1) /\ main' = Idle /\ Ended("aborted")
             ELSE IF Measured(hx, Val(m)) <= 0
             THEN TkRestartIfWas(W1, main.was, MeasureRead(pre, Val(m)), "failed")
             ELSE \E scale \in {TkScale(Measured(hx, Val(m)), Val(gui.known_weight))} :
                     IF FracLeZero(scale)
                     THEN TkRestartIfWas(W1, main.was, MeasureRead(pre, Val(m)), "failed")
                     ELSE \E now2 \in {t \in Times : t >= now} :
                          \E W2 \in {EvalStatus(TkCalibrated(W1, scale, Val(gui.known_weight), now),
                                                now2)} :
                             TkRestartIfWas(W2, main.was,
                                            SavedAs(MeasureRead(pre, Val(m)), W2.config,
                                                    W2.cal_status.level),
                                            "done")
    /\ UNCHANGED tares

(* reader.stop() returns inside stop_reading (the thread ended, or the     *)
(* 1.5 s of the join passed); the operation that called it goes on         *)
TkJoinReturn ==
    /\ ui = "tk"
    /\ main.pc = "join"
    /\ JoinCanReturn(rd)
    /\ CASE main.op = "start_reading" ->
              \E c \in StartChoices : \E W1 \in {TkStopReadingTail(World)} :
              \E W2 \in {TkStartReadingRest(W1, c)} :
                 Commit(W2) /\ main' = Idle /\ pre' = Started(W2)
         [] main.op = "stop_reading" ->
              /\ Commit(TkStopReadingTail(World))
              /\ main' = Idle
              /\ pre' = NoAttempt
         [] main.op = "calibrate" ->
              TkCalibrateZero(World, TRUE, pre)
    /\ UNCHANGED tares

(* HX711App._tare_async: starts a thread running do_tare when a device is held *)
TkTareAsync ==
    /\ ui = "tk"
    /\ main.pc = "idle"
    /\ BagCardinality(orphans) + tares < MaxBackground
    /\ tares' = IF hx.st # "none" THEN tares + 1 ELSE tares
    /\ io' = <<>>
    /\ pre' = NoAttempt
    /\ UNCHANGED <<ui, demo, hx, rd, orphans, demo_timer, is_reading, config, cal_status, gui, main>>

(* do_tare on its own thread; any exception (samples not a number, self.hx *)
(* gone, read error) is caught                                             *)
TkDoTare ==
    /\ ui = "tk"
    /\ tares > 0
    /\ tares' = tares - 1
    /\ IF gui.samples = None \/ hx.st = "none"
       THEN Commit(World)
       ELSE \E out \in ReadOutcomes(hx.st) : \E W1 \in {TareRead(World, out)} :
               IF Raised(out)
               THEN Commit(W1)
               ELSE Commit([W1 EXCEPT !.hx = set_tare_offset(@, Val(out) - hx.OFFSET)])
    /\ pre' = IF main.pc = "idle" THEN NoAttempt ELSE pre
    /\ UNCHANGED main

----------------------------------------------------------------------------
(* lib/qt_app.py: class HX711Controller (Qt front end) *)

(* Settings the QML form can hand to applyAndStart / updateConfig: a key   *)
(* is absent (None), or present with a number; ok = FALSE stands for a     *)
(* form with a field that does not parse                                   *)
QtScales == {None, Some(Frac(0, 1))}
QtKnownWeights == {None, Some(0), Some(1000)}
QtForms == [ok : BOOLEAN, scale : QtScales, known_weight : QtKnownWeights]

(* Weights calibrateWithWeight can be given; None is calibrate() *)
QtWeights == {None, Some(0), Some(1000)}

(* cfg.get(key, self._config.get(key, default)) *)
QtGet(form, cfg, key) == IF form[key] # None THEN Val(form[key]) ELSE cfg[key]

(* _parse_config: the values of the form, the stored ones for absent keys; *)
(* numbers are taken as they are, samples is at least 1                    *)
QtParseConfig(form, cfg) ==
    [scale |-> QtGet(form, cfg, "scale"),
     offset |-> cfg.offset,
     samples |-> Max(1, cfg.samples),
     known_weight |-> QtGet(form, cfg, "known_weight")]

(* a stop that leaves isReading as it is *)
QtStopAll_KeepsReading(W) ==
    With(IF W.rd.st # "none" THEN StopReader(W) ELSE W, LAMBDA W0 :
    With(CloseHX(W0.hx), LAMBDA h2 :
    With(IF W0.hx.st = "none" THEN LetGo(W0, W0.hx)
         ELSE Did([LetGo(W0, h2) EXCEPT !.hx = NoHX], "close"), LAMBDA W1 :
    [W1 EXCEPT !.demo_timer = FALSE])))

(* HX711Controller.stop: reader.stop() has no reader to stop without demo  *)
(* mode (see QtStartReader); self.reader = None; self.hx.close();          *)
(* self.hx = None; the demo timer is stopped; _set_reading_state(False)    *)
QtStopAll(W) ==
    With(IF W.rd.st # "none" THEN StopReader(W) ELSE W, LAMBDA W0 :
    With(CloseHX(W0.hx), LAMBDA h2 :
    With(IF W0.hx.st = "none" THEN LetGo(W0, W0.hx)
         ELSE Did([LetGo(W0, h2) EXCEPT !.hx = NoHX], "close"), LAMBDA W1 :
    [W1 EXCEPT !.demo_timer = FALSE, !.is_reading = FALSE])))

(* hx.set_scale(cfg["scale"]); hx.set_offset(cfg["offset"]); hx.clear_tare() *)
QtApply(W, cfg) == [W EXCEPT !.hx = clear_tare(set_offset(set_scale(@, cfg.scale), cfg.offset))]

(* _start_reader(cfg): stop, save, then the demo timer and the status at   *)
(* time now, or the device and the reader.  HX711ReaderThread(...,         *)
(* rolling_window=...) raises a TypeError, the constructor having no such  *)
(* parameter: the slot ends there, with the device held and no reader      *)
QtStartReader(W, cfg, ctor, now) ==
    With(SaveConfig(QtStopAll(W), cfg), LAMBDA W1 :
    IF demo THEN EvalStatus([W1 EXCEPT !.demo_timer = TRUE, !.is_reading = TRUE], now)
    ELSE IF ctor = "fail" THEN CreateFailed(W1)
    ELSE Did(QtApply(ConstructHX(W1), cfg), "reader_construct_raised"))

QtFrame == main' = Idle /\ UNCHANGED tares

(* HX711Controller.applyAndStart *)
QtApplyAndStart ==
    /\ ui = "qt"
    /\ \E form \in QtForms, ctor \in Ctors, now \in Times :
          IF ~form.ok THEN Commit(World)
          ELSE Commit(QtStartReader(World, QtParseConfig(form, config), ctor, now))
    /\ pre' = NoAttempt
    /\ QtFrame

(* HX711Controller.updateConfig *)
QtUpdateConfig ==
    /\ ui = "qt"
    /\ \E form \in QtForms, now \in Times :
          IF ~form.ok THEN Commit(World)
          ELSE Commit(EvalStatus(SaveConfig(World, QtParseConfig(form, config)), now))
    /\ pre' = NoAttempt
    /\ QtFrame

(* HX711Controller.stop *)
QtStop ==
    /\ ui = "qt"
    /\ Commit(QtStopAll(World))
    /\ pre' = NoAttempt
    /\ QtFrame

(* HX711Controller.tare: on the calling thread; what the read raises is    *)
(* reported                                                                *)
QtTare ==
    /\ ui = "qt"
    /\ IF demo \/ hx.st = "none" THEN Commit(World)
       ELSE \E out \in ReadOutcomes(hx.st) : \E W1 \in {TareRead(World, out)} :
               IF Raised(out) THEN Commit(W1)
               ELSE Commit([W1 EXCEPT !.hx = set_tare_offset(@, Abs(Val(out) - hx.OFFSET))])
    /\ pre' = NoAttempt
    /\ QtFrame

(* max(1.0, known_weight / max(known_weight, 1e-3)) *)
QtDemoScale(kw) == FracMax(FracOfInt(1), FracDiv(FracOfInt(kw), FracMax(FracOfInt(kw), Frac(1, 1000))))

(* the demo branch of _calibrate_internal, up to the restart: the save and *)
(* _set_cal_status("good", ...)                                            *)
QtDemoCalibrated(W, kw, now) ==
    SaveConfig([W EXCEPT !.cal_status = CalStatus("good", <<>>)],
               [scale |-> QtDemoScale(kw),
                offset |-> 0,
                last_zero_raw |-> Some(0),
                calibration_time |-> Some(now)])

(* hx.set_scale(scale); self._config.update({...}); save_config;           *)
(* _set_cal_status("good", ...)                                            *)
QtCalibrated(W, scale, kw, now) ==
    SaveConfig([W EXCEPT !.hx = set_scale(@, scale), !.cal_status = CalStatus("good", <<>>)],
               [scale |-> scale,
                offset |-> W.hx.OFFSET,
                known_weight |-> kw,
                calibration_time |-> Some(now),
                calibration_weight |-> Some(kw),
                last_zero_raw |-> Some(W.hx.OFFSET)])

(* known_weight = float(...); if known_weight <= 0: raise ValueError *)
QtCalibrateChecks(kw) == kw > 0

(* "if was_reading: self._start_reader(self._config)" *)
QtRestartIfWas(W, was, ctor, now) == IF was THEN QtStartReader(W, W.config, ctor, now) ELSE W

(* _calibrate_internal after the demo branch: the device held or a new     *)
(* one, the zero, the measurement, the scale, the save and the restart     *)
QtCalibrateDevice(W, was, kw, p) ==
    \E ctor \in Ctors, z \in OpenOutcomes, m \in OpenOutcomes, now \in Times :
       IF W.hx.st = "none" /\ ctor = "fail"
       THEN Commit(CreateFailed(W)) /\ EndedFrom(p, "init_failed")
       ELSE \E W1 \in {ReadAverage(IF W.hx.st = "none" THEN ConstructHX(W) ELSE W, z)} :
          IF Raised(z) THEN Commit(W1) /\ EndedFrom(p, "aborted")
          ELSE \E W2 \in {ReadAverage([W1 EXCEPT !.hx = clear_tare(set_offset(@, Val(z)))], m)} :
             IF Raised(m) THEN Commit(W2) /\ EndedFrom(ZeroRead(p, Val(z), W1.hx), "aborted")
             ELSE \E p2 \in {MeasureRead(ZeroRead(p, Val(z), W1.hx), Val(m))} :
                IF Measured(W2.hx, Val(m)) <= 0
                THEN Commit(W2) /\ EndedFrom(p2, "failed")
                ELSE \E scale \in {Normal(Frac(Measured(W2.hx, Val(m)), kw))} :
                   IF FracLeZero(scale)
                   THEN Commit(W2) /\ EndedFrom(p2, "failed")
                   ELSE \E W3 \in {QtCalibrated(W2, scale, kw, now)} :
                           /\ Commit(QtRestartIfWas(W3, was, ctor, now))
                           /\ EndedFrom(SavedAs(p2, W3.config, "good"), "done")

(* HX711Controller.calibrate and calibrateWithWeight: _calibrate_internal *)
QtCalibrate ==
    /\ ui = "qt"
    /\ \E w \in QtWeights : \E kw \in {IF w # None THEN Val(w) ELSE config.known_weight} :
       \E was \in {rd.st # "none" \/ demo_timer} :
          IF ~QtCalibrateChecks(kw)
          THEN Commit(World) /\ pre' = Attempt(Some(kw), "rejected")
          ELSE \E W1 \in {IF was THEN QtStopAll(World) ELSE World} :
               IF demo
               THEN \E now \in Times, ctor \in Ctors :
                       Commit(QtRestartIfWas(QtDemoCalibrated(W1, kw, now), was, ctor, now))
                    /\ pre' = Attempt(Some(kw), "done")
               ELSE QtCalibrateDevice(W1, was, kw, Attempt(Some(kw), "started"))
    /\ QtFrame

----------------------------------------------------------------------------
(* The application: one of the two front ends and its reader threads *)

Init ==
    /\ ui \in {"tk", "qt"}
    /\ demo \in (IF ui = "qt" THEN BOOLEAN ELSE {FALSE})
    /\ hx = NoHX
    /\ rd = NoReader
    /\ InitShared

Next ==
    \/ TkEdit
    \/ TkStartReading
    \/ TkStopReading
    \/ TkCalibrate
    \/ TkCalibrateInfoOk
    \/ TkCalibrateConfirm
    \/ TkJoinReturn
    \/ TkTareAsync
    \/ TkDoTare
    \/ QtApplyAndStart
    \/ QtUpdateConfig
    \/ QtStop
    \/ QtTare
    \/ QtCalibrate
    \/ RunLoopTest
    \/ RunTickRead
    \/ RunTickCallback
    \/ RunTickOnError
    \/ RunTickSleep

Spec == Init /\ [][Next]_vars

----------------------------------------------------------------------------
(* The Tk front end started on a stored configuration: sessions, the power *)
(* buttons and the language menu                                           *)

(* time.time() values of the run: more than 7 days after a calibration     *)
(* made at time 1, less than 7 days after one made at time 3               *)
SessionTimes == {2 + StaleDays * SecondsPerDay, 3 + StaleDays * SecondsPerDay}

(* What load_config() returns at start-up: the defaults, or a calibration  *)
(* with its zero at raw 0, for which a zero reading of 500 is a drift of   *)
(* exactly 5 g at scale 100 and of more than 5 g at scale 99               *)
StoredScales == {Frac(100, 1), Frac(99, 1)}
StoredCalibrationTimes == {1, 3}
StoredConfigs ==
    {DEFAULT_CONFIG} \cup
    {[DEFAULT_CONFIG EXCEPT !.scale = sc,
                            !.calibration_time = Some(t),
                            !.calibration_weight = Some(DefaultKnownWeight),
                            !.last_zero_raw = Some(0)] :
        sc \in StoredScales, t \in StoredCalibrationTimes}

(* HX711App.__init__ *)
InitSession ==
    /\ ui = "tk"
    /\ demo = FALSE
    /\ hx = NoHX
    /\ rd = NoReader
    /\ orphans = EmptyBag
    /\ demo_timer = FALSE
    /\ is_reading = FALSE
    /\ config \in StoredConfigs
    /\ gui = GuiOf(config)
    /\ \E now \in SessionTimes : cal_status = StatusOf(Wrapped(config), now)
    /\ main = Idle
    /\ tares = 0
    /\ io = <<>>
    /\ pre = NoAttempt

(* HX711App.power_down: "if self.hx: self.hx.power_down()" *)
TkPowerDown ==
    /\ ui = "tk"
    /\ main.pc = "idle"
    /\ IF hx.st = "none" THEN Commit(World)
       ELSE Commit(Did([World EXCEPT !.hx = power_down(@)], "power_down"))
    /\ pre' = NoAttempt
    /\ UNCHANGED <<main, tares>>

(* HX711App.power_up: "if self.hx: self.hx.power_up()" *)
TkPowerUp ==
    /\ ui = "tk"
    /\ main.pc = "idle"
    /\ IF hx.st = "none" THEN Commit(World)
       ELSE Commit(Did([World EXCEPT !.hx = power_up(@)], "power_up"))
    /\ pre' = NoAttempt
    /\ UNCHANGED <<main, tares>>

(* HX711App._on_language_change: saves the language, rebuilds the frames   *)
(* and evaluates the calibration status                                    *)
Languages == {"sv"}
TkLanguageChange ==
    /\ ui = "tk"
    /\ main.pc = "idle"
    /\ \E lang \in Languages : \E now \in SessionTimes :
          Commit(EvalStatus(SaveConfig(World, [language |-> lang]), now))
    /\ pre' = NoAttempt
    /\ UNCHANGED <<main, tares>>

NextSession ==
    \/ TkStartReading
    \/ TkStopReading
    \/ TkJoinReturn
    \/ TkPowerDown
    \/ TkPowerUp
    \/ TkLanguageChange
    \/ RunLoopTest
    \/ RunTickRead
    \/ RunTickCallback
    \/ RunTickOnError
    \/ RunTickSleep

SpecSession == InitSession /\ [][NextSession]_vars

----------------------------------------------------------------------------
(* lib/hx711_device.py: HX711.read line by line, on the two lines of the   *)
(* amplifier                                                               *)

(* Conversions the amplifier holds while read() is followed pulse by pulse *)
PulsePatterns == {0, 8388609, 16777215}

(* Who calls read(): the client, read_average, the set_gain of __init__,   *)
(* the read_average of a tick of HX711ReaderThread._run                    *)
ReadCallers == {"read", "read_average", "__init__", "tick"}

(* The two lines as read() finds them after power_up and set_gain: the     *)
(* clock low (PD_SCK.off()), the data line high, no conversion being ready *)
Wired(gain) ==
    [st |-> "open", GAIN |-> set_gain([GAIN |-> 0], gain).GAIN,
     PD_SCK |-> "low", DOUT |-> "high"]

(* The frame of read(): pc is the line it is at, arg the conversion the    *)
(* amplifier holds, i the turns of the loop at hand that are over, count   *)
(* the local of that name, pulses the rising edges of the clock so far,    *)
(* phase the level of the clock at the last "self.DOUT.is_active == 1"     *)
ReadFrame(pc, op, p) ==
    [pc |-> pc, op |-> op, arg |-> p, i |-> 0, count |-> 0, pulses |-> 0,
     phase |-> "none", ret |-> NoResult]

InitPulse ==
    /\ ui = "pulse"
    /\ demo = FALSE
    /\ \E gain \in Gains : hx = Wired(gain)
    /\ main = ReadFrame("idle", "none", 0)
    /\ rd = NoReader
    /\ orphans = EmptyBag
    /\ demo_timer = FALSE
    /\ is_reading = FALSE
    /\ config = DEFAULT_CONFIG
    /\ gui = GuiOf(DEFAULT_CONFIG)
    /\ cal_status = CalStatus("bad", <<>>)
    /\ tares = 0
    /\ io = <<>>
    /\ pre = NoAttempt

OnlyLines == UNCHANGED <<ui, demo, rd, orphans, demo_timer, is_reading, config, cal_status, gui, tares, pre>>

(* a wait for the data line that gives up *)
Ready_GivesUp(h) == TRUE

(* "while not (self.DOUT.is_active == 0): time.sleep(0.0001)" is left:     *)
(* the data line is low (pull_up=False: active is high)                    *)
Ready(h) == h.DOUT = "low"

(* self.PD_SCK.on() / self.PD_SCK.off() *)
ClockOn(h) == [h EXCEPT !.PD_SCK = "high"]
ClockOff(h) == [h EXCEPT !.PD_SCK = "low"]

(* The amplifier at a rising edge of the clock: it puts the next bit of    *)
(* the conversion p on the data line, most significant first, and lets     *)
(* the line go high once the 24 bits are out                               *)
Shifted(h, p, edge) ==
    [h EXCEPT !.DOUT = IF edge <= SampleBits /\ DoutBit(p, edge) = 0 THEN "low" ELSE "high"]

(* read() is called: the caller waits for it to return *)
PulseCall ==
    /\ ui = "pulse"
    /\ main.pc = "idle"
    /\ \E op \in ReadCallers, p \in PulsePatterns : main' = ReadFrame("wait", op, p)
    /\ io' = <<>>
    /\ UNCHANGED hx
    /\ OnlyLines

(* The amplifier has a conversion ready: it pulls the data line low, and   *)
(* holds it until the conversion is clocked out                            *)
PulseReady ==
    /\ ui = "pulse"
    /\ main.pc \in {"idle", "wait"}
    /\ hx.DOUT = "high"
    /\ hx' = [hx EXCEPT !.DOUT = "low"]
    /\ io' = <<>>
    /\ UNCHANGED main
    /\ OnlyLines

(* the while loop is left; count = 0 *)
PulseWaitOver ==
    /\ ui = "pulse"
    /\ main.pc = "wait"
    /\ Ready(hx)
    /\ main' = [main EXCEPT !.pc = "data_on"]
    /\ io' = <<>>
    /\ UNCHANGED hx
    /\ OnlyLines

(* for _ in range(24): self.PD_SCK.on(); count <<= 1 *)
PulseDataOn ==
    /\ ui = "pulse"
    /\ main.pc = "data_on"
    /\ hx' = Shifted(ClockOn(hx), main.arg, main.pulses + 1)
    /\ main' = [main EXCEPT !.pc = "data_off", !.count = 2 * @, !.pulses = @ + 1]
    /\ io' = <<"PD_SCK.on">>
    /\ OnlyLines

(* self.PD_SCK.off() *)
PulseDataOff ==
    /\ ui = "pulse"
    /\ main.pc = "data_off"
    /\ hx' = ClockOff(hx)
    /\ main' = [main EXCEPT !.pc = "data_bit"]
    /\ io' = <<"PD_SCK.off">>
    /\ OnlyLines

(* if self.DOUT.is_active == 1: count += 1; and the next turn of the loop *)
PulseDataBit ==
    /\ ui = "pulse"
    /\ main.pc = "data_bit"
    /\ main' = [main EXCEPT !.pc = IF main.i + 1 < SampleBits THEN "data_on" ELSE "xor_on",
                            !.i = IF main.i + 1 < SampleBits THEN @ + 1 ELSE 0,
                            !.count = IF hx.DOUT = "high" THEN @ + 1 ELSE @,
                            !.phase = hx.PD_SCK]
    /\ io' = <<"DOUT.is_active">>
    /\ UNCHANGED hx
    /\ OnlyLines

(* self.PD_SCK.on(); count ^= 0x800000 *)
PulseXorOn ==
    /\ ui = "pulse"
    /\ main.pc = "xor_on"
    /\ hx' = Shifted(ClockOn(hx), main.arg, main.pulses + 1)
    /\ main' = [main EXCEPT !.pc = "xor_off", !.count = BitXor(@, SignMask), !.pulses = @ + 1]
    /\ io' = <<"PD_SCK.on">>
    /\ OnlyLines

(* self.PD_SCK.off(), and on to "for _ in range(self.GAIN)" *)
PulseXorOff ==
    /\ ui = "pulse"
    /\ main.pc = "xor_off"
    /\ hx' = ClockOff(hx)
    /\ main' = [main EXCEPT !.pc = IF hx.GAIN > 0 THEN "gain_on" ELSE "return"]
    /\ io' = <<"PD_SCK.off">>
    /\ OnlyLines

(* for _ in range(self.GAIN): self.PD_SCK.on() *)
PulseGainOn ==
    /\ ui = "pulse"
    /\ main.pc = "gain_on"
    /\ hx' = Shifted(ClockOn(hx), main.arg, main.pulses + 1)
    /\ main' = [main EXCEPT !.pc = "gain_off", !.pulses = @ + 1]
    /\ io' = <<"PD_SCK.on">>
    /\ OnlyLines

(* self.PD_SCK.off(), and the next turn of the loop *)
PulseGainOff ==
    /\ ui = "pulse"
    /\ main.pc = "gain_off"
    /\ hx' = ClockOff(hx)
    /\ main' = [main EXCEPT !.pc = IF main.i + 1 < hx.GAIN THEN "gain_on" ELSE "return",
                            !.i = @ + 1]
    /\ io' = <<"PD_SCK.off">>
    /\ OnlyLines

(* return count: the caller goes on *)
PulseReturn ==
    /\ ui = "pulse"
    /\ main.pc = "return"
    /\ main' = [main EXCEPT !.pc = "idle", !.ret = Returned(main.count)]
    /\ io' = <<"read">>
    /\ UNCHANGED hx
    /\ OnlyLines

(* The steps of read() itself *)
ReadStep ==
    \/ PulseWaitOver
    \/ PulseDataOn
    \/ PulseDataOff
    \/ PulseDataBit
    \/ PulseXorOn
    \/ PulseXorOff
    \/ PulseGainOn
    \/ PulseGainOff
    \/ PulseReturn

NextPulse ==
    \/ PulseCall
    \/ PulseReady
    \/ PulseWaitOver
    \/ PulseDataOn
    \/ PulseDataOff
    \/ PulseDataBit
    \/ PulseXorOn
    \/ PulseXorOff
    \/ PulseGainOn
    \/ PulseGainOff
    \/ PulseReturn

SpecPulse == InitPulse /\ [][NextPulse]_vars

(* The thread that called read() keeps running; nothing makes the          *)
(* amplifier have a conversion ready                                       *)
FairSpecPulse == SpecPulse /\ WF_vars(ReadStep)

----------------------------------------------------------------------------
(* Claims about the scale, the calibration and the device (both front ends) *)

(* C1: in every reachable state the persisted scale and the scale of the   *)
(* held, open HX711 are strictly greater than 0.                           *)
C1_ScaleAlwaysPositive ==
    /\ Num(config.scale) > 0
    /\ hx.st = "open" => Num(hx.SCALE) > 0

PersistedCalibration(cfg) ==
    <<cfg.offset, cfg.scale, cfg.known_weight, cfg.calibration_time, cfg.last_zero_raw>>

(* C2: when a calibration attempt has ended Failed (measured value or      *)
(* computed scale not > 0), the persisted offset, scale, known_weight,     *)
(* calibration_time and last_zero_raw equal their values from before the   *)
(* attempt, also after the sampling loop is restarted.                     *)
C2_FailedLeavesCalibrationUntouched ==
    pre.outcome = "failed" =>
        PersistedCalibration(config) = PersistedCalibration(pre.cfg)

(* C3: when the operator has cancelled a calibration attempt at the        *)
(* confirmation prompt, the persisted offset and scale equal their values  *)
(* from before the attempt, and so do the offset and scale of the device   *)
(* of the sampling session that follows when one preceded the attempt.     *)
C3_CancelledPreservesCalibration ==
    pre.outcome = "cancelled" =>
        /\ config.offset = pre.cfg.offset
        /\ config.scale = pre.cfg.scale
        /\ (pre.was /\ rd.st = "live") =>
              (Some(hx.OFFSET) = pre.OFFSET /\ Some(hx.SCALE) = pre.SCALE)

(* C4: a calibrate request with known_weight <= 0 is rejected before any   *)
(* hardware access: the step that takes the request creates no HX711,      *)
(* reads nothing, leaves the reader (and its stop flag) alone, and changes *)
(* neither the configuration, nor the entries, nor the device's fields.    *)
C4_NonPositiveWeightRejected ==
    [][(pre' # pre /\ pre'.outcome # "none" /\ pre'.kw # None /\ Val(pre'.kw) <= 0) =>
          /\ pre'.outcome = "rejected"
          /\ io' = <<>>
          /\ UNCHANGED <<hx, rd, orphans, config, gui, demo_timer, is_reading>>]_vars

(* C4 witness: a request with a weight <= 0 has just been rejected while a *)
(* sampling loop is running, and the loop has not been asked to stop       *)
C4_Witness ==
    /\ pre.outcome = "rejected"
    /\ Val(pre.kw) <= 0
    /\ rd.st = "live"
    /\ ~rd.stop
    /\ AliveThreads(rd) # {}

Range(f) == {f[x] : x \in DOMAIN f}

(* A reader thread, of the held reader or of one let go of, is in a tick *)
SomeThreadInTick ==
    \/ rd.st = "live" /\ TickingThreads(rd) # {}
    \/ \E o \in BagToSet(orphans) : TickingThreads(o.r) # {}

(* C5: no read issued by a calibration attempt (zeroing or measuring)      *)
(* executes while a sampling-loop thread is still executing a tick.        *)
C5_CalibrationSerializedWithSampling ==
    (pre.outcome # "none" /\ Range(io) \cap {"read", "read_average"} # {}) =>
        ~SomeThreadInTick

(* HX711 objects constructed and not yet closed *)
OpenHandles ==
    (IF hx.st = "open" THEN 1 ELSE 0)
    + BagCardinality([o \in {x \in BagToSet(orphans) : x.dev = "open"} |-> orphans[o]])

(* C6: in every reachable state of either front end at most one HX711      *)
(* constructed and not yet closed exists.                                  *)
C6_AtMostOneOpenHandle == OpenHandles <= 1

(* C6 witness: a new HX711 has been constructed and is open while a thread *)
(* of the previous session is still alive, on its closed HX711             *)
C6_Witness ==
    /\ hx.st = "open"
    /\ \E o \in BagToSet(orphans) : o.dev = "closed" /\ AliveThreads(o.r) # {}

----------------------------------------------------------------------------
(* Claims about the sampling loop (HX711ReaderThread) *)

Threads(R) == 1..Len(R.threads)
ThreadAlive(R, i) == i \in Threads(R) /\ Alive(R.threads[i])

C8_StopIsCooperative ==
    /\ [][\A i \in Threads(rd) :
             i \in Threads(rd') =>
               LET t  == rd.threads[i]
                   t2 == rd'.threads[i]
               IN  /\ (rd.stop /\ Alive(t) /\ t.pc # "read") => t2.pc # "read"
                   /\ (rd.stop /\ Alive(t) /\ Alive(t2)) => rd'.stop]_vars
    /\ (rd.stop /\ ThreadAlive(rd, 1)) ~> ~ThreadAlive(rd, 1)

(* C8 witness: the loop test has seen the flag and the thread has ended *)
C8_Witness ==
    /\ io = Loop
    /\ rd.stop
    /\ \E i \in Threads(rd) : ~Alive(rd.threads[i])

(* C9: stop() called from inside a callback, on the loop's own thread,     *)
(* returns (it does not raise).                                            *)
C9_StopFromCallbackReturns ==
    \A i \in Threads(rd) : rd.threads[i].cbStop # "raised"

(* C10: at most one loop thread is alive per HX711ReaderThread *)
C10_AtMostOneLoop == Cardinality(AliveThreads(rd)) <= 1

(* C10 witness: start() has just been called while the loop thread was     *)
(* alive and past its first test, and there is still one thread            *)
C10_Witness ==
    /\ io = <<"start">>
    /\ ~rd.stop
    /\ Len(rd.threads) = 1
    /\ rd.threads[1].pc \in {"read", "cb", "err", "sleep", "esleep"}

----------------------------------------------------------------------------
(* Claims about the device helper (HX711) *)

ExpectedPulses(gain) == IF gain = 64 THEN 2 ELSE IF gain = 32 THEN 1 ELSE 3

(* C11: after construction and after set_gain with requested gain 128, 64  *)
(* or 32 the pulse count GAIN is 3, 2 or 1, and for any other requested    *)
(* gain it is 3.                                                           *)
C11_GainMapping ==
    main.op \in {"__init__", "set_gain"} => hx.GAIN = ExpectedPulses(main.arg)

(* the integer a 24-bit pattern stands for in two's complement *)
Signed24(p) == IF p >= SignMask THEN p - 2 * SignMask ELSE p

(* C12: for every 24-bit pattern shifted in MSB first, read returns the    *)
(* pattern XORed with 0x800000, and that result is the signed integer of   *)
(* the two's-complement sample (negative when bit 23 is set, within        *)
(* -2^23 .. 2^23-1).                                                       *)
C12_ReadSampleSigned ==
    main.op = "read" =>
        /\ main.ret = Returned(BitXor(main.arg, SignMask))
        /\ main.ret.v = Signed24(main.arg)
        /\ main.ret.v >= -SignMask /\ main.ret.v <= SignMask - 1

RECURSIVE SumSeq(_)
SumSeq(s) == IF s = <<>> THEN 0 ELSE Head(s) + SumSeq(Tail(s))

ReadAverageOver == main.op = "read_average" /\ main.pc = "idle"

(* C13: read_average(n), n >= 1, returns the arithmetic mean of exactly n  *)
(* consecutive read() results (it fails only when a read fails), and over  *)
(* n identical samples v it returns exactly v.                             *)
C13_ReadAverageIsMean ==
    (ReadAverageOver /\ main.arg >= 1) =>
        IF main.ret.kind = "value"
        THEN /\ Len(main.seen) = main.arg
             /\ Num(main.ret.v) * main.arg = SumSeq(main.seen) * Den(main.ret.v)
             /\ (\A k \in 1..Len(main.seen) : main.seen[k] = main.seen[1]) =>
                    main.ret.v = FracOfInt(main.seen[1])
        ELSE main.ret = RaisedError("IOError") /\ Len(main.seen) < main.arg

(* C13 witness: read_average has returned the mean of two or more samples  *)
(* that are not all the same, and the mean is not a whole number           *)
C13_Witness ==
    /\ ReadAverageOver
    /\ main.arg >= 2
    /\ main.ret.kind = "value"
    /\ Den(main.ret.v) > 1

(* C14: every grams value the core computes (the tick's, and get_grams')   *)
(* equals (|raw_average - offset| - |TareOffset|) / max(scale, epsilon)    *)
(* with the fields as they are at that moment, so it is defined for every  *)
(* scale, 0 included; offset 200, tare 0, scale 10, raw 1000 give 80.      *)
C14_GramsFormula ==
    /\ TickGrams([OFFSET |-> FracOfInt(200), TARE_OFFSET |-> FracOfInt(0), SCALE |-> FracOfInt(10)],
                 FracOfInt(1000)) = FracOfInt(80)
    /\ (main.op = "get_grams" /\ main.pc = "idle" /\ Len(main.seen) = main.arg) =>
           /\ main.ret.kind = "value"
           /\ main.ret.v = TickGrams(hx, Normal(Frac(SumSeq(main.seen), main.arg)))

(* C16: a tare operation never changes scale or offset, on the device or   *)
(* in the configuration, and writes nothing to the configuration: this is  *)
(* so of every step of HX711.tare and of the tare of the two front ends.   *)
C16_TareLeavesCalibrationAlone ==
    [][(\/ main.op = "tare" /\ main.pc = "avg" /\ io' \in {<<"read">>, <<"read_raised">>, <<"tare">>}
        \/ io' \in {<<"tare_read">>, <<"tare_read_raised">>})
       => /\ hx'.OFFSET = hx.OFFSET
          /\ hx'.SCALE = hx.SCALE
          /\ config' = config]_vars

----------------------------------------------------------------------------
(* Claims about the smoothing of the sampling loop *)

LastOf(s, n) == SubSeq(s, Len(s) - n + 1, Len(s))

(* the most recent (up to 3) grams values the loop has computed *)
RecentGrams == LastOf(rd.pushed, IF Len(rd.pushed) < 3 THEN Len(rd.pushed) ELSE 3)

Below(w, m) == Cardinality({j \in 1..Len(w) : w[j] # m /\ FracLe(w[j], m)})
Above(w, m) == Cardinality({j \in 1..Len(w) : w[j] # m /\ FracLe(m, w[j])})

(* m is a median of the values of w: one of them, with at most half of     *)
(* them below it and at most half of them above it                         *)
IsMedianOf(m, w) ==
    /\ \E j \in 1..Len(w) : w[j] = m
    /\ 2 * Below(w, m) <= Len(w)
    /\ 2 * Above(w, m) <= Len(w)

TickEmitted == main.op = "tick" /\ main.pc = "idle" /\ main.ret.kind = "value"

(* C15: the grams of each Reading is the median of the window of the most  *)
(* recent (up to 3) unsmoothed grams values; from the third tick on it is  *)
(* the median of the last three: [10, 50, 12] gives 12 on the third tick.  *)
C15_EmitsMedianOfWindow ==
    /\ TickEmitted => IsMedianOf(main.ret.v.grams, RecentGrams)
    /\ Smoothed(BufferAppend(BufferAppend(BufferAppend(<<>>, FracOfInt(10)), FracOfInt(50)),
                             FracOfInt(12))) = FracOfInt(12)

(* C15 witness: a fourth tick has emitted, the oldest value having left    *)
(* the window, and the median is neither the newest nor the oldest value   *)
(* of the window                                                           *)
C15_Witness ==
    /\ TickEmitted
    /\ Len(rd.pushed) >= 4
    /\ main.ret.v.grams # rd.pushed[Len(rd.pushed)]
    /\ main.ret.v.grams # rd.pushed[Len(rd.pushed) - 2]
    /\ rd.pushed[1] # main.ret.v.grams

----------------------------------------------------------------------------
(* Claims about tare and calibration in the two front ends *)

(* C17: after a successful tare the stored TARE_OFFSET is the absolute     *)
(* value |read_average(samples) - offset|, hence never negative, in both   *)
(* front ends.                                                             *)
C17_TareOffsetIsAbsolute ==
    io = <<"tare_read">> =>
        /\ hx.TARE_OFFSET >= 0
        /\ \E r \in RawVals : hx.TARE_OFFSET = Abs(r - hx.OFFSET)

(* The step reads the zero of a calibration attempt and sets it as OFFSET *)
ZeroingStep ==
    /\ "read_average" \in Range(io')
    /\ \/ ui = "tk" /\ pre'.outcome = "zeroed"
       \/ ui = "qt"

(* C18: TARE_OFFSET is 0 on every newly constructed HX711 (a new sampling  *)
(* session always constructs one, so no tare of an earlier session is left *)
(* in a later one) and is 0 again after the zeroing step of a calibration  *)
(* attempt.                                                                *)
C18_TareClearedOnNewHandleAndZeroing ==
    [][/\ ("construct" \in Range(io') /\ hx'.st = "open") => hx'.TARE_OFFSET = 0
       /\ (ZeroingStep /\ hx'.st = "open") => hx'.TARE_OFFSET = 0]_vars

(* C18 witness: a calibration attempt has zeroed a device that had a tare  *)
(* offset set, and the offset is gone                                      *)
C18_Witness ==
    /\ pre.zero # None
    /\ pre.TARE_OFFSET # None
    /\ Val(pre.TARE_OFFSET) # 0
    /\ hx.st = "open"
    /\ hx.TARE_OFFSET = 0

(* C19: a calibration attempt (on a device) that reaches Done saves        *)
(* scale = |measuring average - zeroing average| / known weight, offset =  *)
(* zeroing average, known_weight = calibration_weight = known weight,      *)
(* calibration_time = now and last_zero_raw = offset, and the calibration  *)
(* status it sets right after is "good"; offset 0, known weight 500 and    *)
(* measured average 500 give scale 1.                                      *)
C19_DonePersistsCalibration ==
    /\ (pre.outcome = "done" /\ ~demo) =>
          /\ pre.saved # None /\ pre.zero # None /\ pre.measured # None
          /\ Val(pre.saved).scale =
                 Normal(Frac(Abs(Val(pre.measured) - Val(pre.zero)), Val(pre.kw)))
          /\ Val(pre.saved).offset = Val(pre.zero)
          /\ Val(pre.saved).known_weight = Val(pre.kw)
          /\ Val(pre.saved).calibration_weight = pre.kw
          /\ Val(pre.saved).calibration_time # None
          /\ Val(Val(pre.saved).calibration_time) \in Times
          /\ Val(pre.saved).last_zero_raw = Some(Val(pre.saved).offset)
          /\ pre.verdict = "good"
          /\ ~pre.was => config = Val(pre.saved)
    /\ TkScale(Abs(500 - 0), 500) = FracOfInt(1)

(* C19 witness: an attempt of the Tk front end, made while sampling was    *)
(* on, has reached Done and sampling has been restarted                    *)
C19_Witness ==
    /\ pre.outcome = "done"
    /\ ui = "tk"
    /\ pre.was
    /\ pre.saved # None
    /\ rd.st = "live"

AttemptReads(ev) ==
    Cardinality({k \in 1..Len(ev) : ev[k] \in {"read_average", "read_average_raised"}})

AfterOperator == main.pc \in {"cal_info", "cal_confirm"}

(* C20: a calibration attempt (on a device) goes Idle, Zeroing,            *)
(* AwaitingKnownWeight, Measuring, then Done, Cancelled or Failed: the     *)
(* step that reads the zero reads nothing else and leaves the attempt      *)
(* waiting for the operator, while it waits the attempt reads nothing,     *)
(* and it ends Done, Cancelled or Failed only by a step that follows a     *)
(* confirmation.                                                           *)
C20_CalibrationOrder ==
    [][(pre'.outcome # "none" /\ ~demo) =>
          /\ ~AfterOperator => AttemptReads(io') <= 1
          /\ ZeroingStep => (pre'.outcome = "zeroed" /\ main'.pc = "cal_info")
          /\ (main.pc = "cal_info" /\ main'.pc = "cal_info") => AttemptReads(io') = 0
          /\ (pre' # pre /\ pre'.outcome \in {"done", "cancelled", "failed"}) => AfterOperator]_vars

----------------------------------------------------------------------------
(* Claims about the restart of sampling after a calibration attempt *)

(* was_reading as the front ends compute it: a reader is held, or the demo *)
(* timer runs                                                              *)
SamplingActive == rd.st # "none" \/ demo_timer

----------------------------------------------------------------------------
(* Claims about the configuration file and the calibration status *)

(* The three values the status is derived from are there *)
CalibrationPresent(doc) ==
    doc.calibration_time # None /\ doc.scale # None /\ doc.offset # None

(* C23: the status derived from the stored metadata is "bad" exactly when  *)
(* calibration_time, scale or offset is absent; otherwise it is "warn"     *)
(* exactly when (now - calibration_time) / 86400 > 7, whatever the         *)
(* calibration_time, and "good" otherwise; an age of exactly 7 days gives  *)
(* "good".                                                                 *)
C23_VerdictFromMetadata ==
    /\ io = <<"eval">> =>
          cal_status.level =
              IF ~CalibrationPresent(config) THEN "bad"
              ELSE IF main.now - Val(config.calibration_time) > StaleDays * SecondsPerDay
                   THEN "warn"
                   ELSE "good"
    /\ EvalCalStatus([Wrapped(DEFAULT_CONFIG) EXCEPT !.calibration_time = Some(1)],
                     1 + StaleDays * SecondsPerDay) = "good"

(* C27: load_config returns, whatever the file: the built-in defaults when *)
(* the file is missing, cannot be parsed or holds no object; for an object *)
(* every key it lacks has its default, every key it holds has the stored   *)
(* value, and a save writes every key the updates do not name, the unknown *)
(* ones included, back as it was.                                          *)
C27_LoadFallsBackAndKeepsKeys ==
    [][/\ io' = <<"load_config">> =>
             /\ main.file.kind # "object" => config' = Wrapped(DEFAULT_CONFIG)
             /\ main.file.kind = "object" =>
                    /\ DOMAIN config' = DOMAIN DEFAULT_CONFIG \cup DOMAIN main.file.doc
                    /\ \A k \in DOMAIN DEFAULT_CONFIG \ DOMAIN main.file.doc :
                           config'[k] = Wrapped(DEFAULT_CONFIG)[k]
                    /\ \A k \in DOMAIN main.file.doc : config'[k] = main.file.doc[k]
       /\ io' = <<"save_config">> =>
             /\ main'.file.kind = "object"
             /\ \A k \in DOMAIN config \ DOMAIN main'.updates :
                    k \in DOMAIN main'.file.doc /\ main'.file.doc[k] = config[k]]_vars

(* C27 witness: an object that lacks a key with a default and holds one    *)
(* without has been loaded and saved, and the unknown key is in the file   *)
C27_Witness ==
    /\ io = <<"save_config">>
    /\ "language" \notin DOMAIN main.updates
    /\ "language" \in DOMAIN main.file.doc
    /\ main.file.doc["language"] = Some("sv")
    /\ main.file.doc["samples"] = Some(DefaultSamples)

----------------------------------------------------------------------------
(* C24: when a session start of the Tk front end has taken a zero reading, *)
(* the step sets the status to "warn" with the zero-drift reason if        *)
(* |current_zero - offset| / max(scale, 1e-9) is more than 5.0 g, and      *)
(* leaves the status as it was otherwise.  With offset 1000 and scale 10 a *)
(* reading of 1050 (exactly 5.0 g) does not warn and 1051 does.            *)
SessionStarted == "construct" \in Range(io) /\ "start" \in Range(io)
ZeroWarning == CalStatus("warn", <<"zero">>)
ExampleHX == set_offset(set_scale(NewHX, Frac(10, 1)), 1000)

C24_DriftWarnsAboveLimit ==
    [][ /\ (SessionStarted' /\ pre'.drift # None) =>
              IF ~FracLe(FracDiv(FracOfInt(Abs(Val(pre'.drift) - hx'.OFFSET)),
                                 FracMax(hx'.SCALE, Epsilon)),
                         FracOfInt(DriftLimit))
              THEN cal_status' = ZeroWarning
              ELSE cal_status' = cal_status
        /\ ~DriftExceeds(ExampleHX, 1050)
        /\ DriftExceeds(ExampleHX, 1051) ]_vars

(* a session started at scale 100 whose zero reading of 500 is a drift of  *)
(* exactly 5.0 g, and the status is still the "good" it was                *)
C24_Witness ==
    /\ SessionStarted
    /\ pre.drift = Some(500)
    /\ hx.SCALE = Frac(100, 1)
    /\ hx.OFFSET = 0
    /\ cal_status.level = "good"

----------------------------------------------------------------------------
(* C25: when a session starts on a calibration that is more than 7 days    *)
(* old and its zero reading has drifted by more than 5.0 g, the status is  *)
(* "warn" and names both the age and the zero drift; the status is never   *)
(* "bad" while calibration_time, scale and offset are all present.         *)
StaleThroughout ==
    /\ config.calibration_time # None
    /\ \A now \in SessionTimes :
          now - Val(config.calibration_time) > StaleDays * SecondsPerDay

C25_StaleAndDriftedBothReasons ==
    /\ (SessionStarted /\ pre.drift # None /\ StaleThroughout
          /\ DriftExceeds(hx, Val(pre.drift))) =>
          /\ cal_status.level = "warn"
          /\ {"age", "zero"} \subseteq Range(cal_status.reasons)
    /\ CalibrationPresent(Wrapped(config)) => cal_status.level # "bad"

----------------------------------------------------------------------------
(* C26: once start_reading of the Tk front end has constructed the device, *)
(* the reader is started and its thread runs, whether the drift check      *)
(* passes, warns or raises, and the device has the offset and the scale of *)
(* the entries: the check changed neither.                                 *)
C26_DriftCheckAdvisory ==
    [][ "construct" \in Range(io') =>
           /\ "start" \in Range(io')
           /\ rd'.st = "live"
           /\ AliveThreads(rd') # {}
           /\ hx'.st = "open"
           /\ hx'.OFFSET = Val(gui.offset)
           /\ hx'.SCALE = Val(gui.scale) ]_vars

(* a session whose drift check warned, sampling *)
C26_Witness ==
    /\ SessionStarted
    /\ pre.drift = Some(500)
    /\ hx.SCALE = Frac(99, 1)
    /\ cal_status = ZeroWarning
    /\ AliveThreads(rd) # {}

----------------------------------------------------------------------------
(* C30: after power_down the clock line of the held device is high, and it *)
(* stays high until power_up: while the device is held, no step other than *)
(* power_up takes the line from high to low (stop_reading releases the     *)
(* device).                                                                *)
C30_ClockHighUntilPowerUp ==
    [][ /\ "power_down" \in Range(io') => hx'.PD_SCK = "high"
        /\ "power_up" \in Range(io') => hx'.PD_SCK = "low"
        /\ (hx.st = "open" /\ hx.PD_SCK = "high"
              /\ hx'.st = "open" /\ hx'.PD_SCK = "low") =>
              \/ "power_up" \in Range(io')
              \/ "close" \in Range(io') ]_vars

----------------------------------------------------------------------------
(* C28: when HX711() fails at a session start (start_reading, _start_reader *)
(* and the restart after a calibration; the calibration's own construction *)
(* is reported the same way), the step shows the error and returns: it     *)
(* makes exactly one construction attempt, and afterwards no reader        *)
(* exists, no demo timer runs and no device is held.                       *)
Count(ev, e) == Cardinality({k \in 1..Len(ev) : ev[k] = e})

C28_InitFailureReportedNoRetry ==
    [][ "construct_failed" \in Range(io') =>
           /\ io'[Len(io')] = "error_shown"
           /\ io'[Len(io') - 1] = "construct_failed"
           /\ Count(io', "construct_failed") = 1
           /\ Count(io', "construct") = 0
           /\ main'.pc = "idle"
           /\ hx'.st = "none"
           /\ rd'.st = "none"
           /\ ~demo_timer'
           /\ ~is_reading' ]_vars

(* a session that was sampling is restarted and the new HX711() fails *)
C28_Witness ==
    /\ io = <<"close", "construct_failed", "error_shown">>
    /\ hx.st = "none"
    /\ rd.st = "none"
    /\ main.pc = "idle"

----------------------------------------------------------------------------
(* C29: HX711.close is idempotent.  A call on an open device calls close() *)
(* once on DOUT and once on PD_SCK, also when the first of them raises; a  *)
(* call on a closed device changes nothing and calls nothing; no call      *)
(* raises, and no line ever receives a second close().                     *)
C29_CloseIdempotent ==
    [][ main'.op = "close" =>
           /\ main'.ret = Returned(None)
           /\ hx'.st = "closed"
           /\ Len(hx'.DOUT_closes) = 1
           /\ Len(hx'.PD_SCK_closes) = 1
           /\ hx.st = "open" => io' = <<"DOUT.close", "PD_SCK.close">>
           /\ hx.st = "closed" => (hx' = hx /\ io' = <<>>) ]_vars

(* close() called again on a device whose DOUT line raised when closed *)
C29_Witness ==
    /\ main.op = "close"
    /\ io = <<>>
    /\ hx.st = "closed"
    /\ hx.DOUT_closes = <<"raised">>
    /\ hx.PD_SCK_closes = <<"closed">>

----------------------------------------------------------------------------
(* C31: read() raises the clock for the first time only when the data line *)
(* is low (a conversion is ready); while it waits and the data line is     *)
(* high, read() and its caller (read_average, the constructor, a tick) do  *)
(* not move and the clock stays low, for as long as that lasts, there      *)
(* being no timeout; once the data line is low, read() returns.            *)
C31_ReadWaitsForReady ==
    /\ [][ /\ (hx.PD_SCK = "low" /\ hx'.PD_SCK = "high" /\ main'.pulses = 1) =>
                 hx.DOUT = "low"
           /\ (main.pc = "wait" /\ hx.DOUT = "high") =>
                 (main' = main /\ hx'.PD_SCK = "low") ]_vars
    /\ (main.pc = "wait" /\ hx.DOUT = "low") ~> (main.pc = "idle" /\ main.ret.kind = "value")

(* the read_average of a tick is inside read(), no conversion is ready *)
C31_Witness ==
    /\ main.pc = "wait"
    /\ main.op = "tick"
    /\ hx.DOUT = "high"
    /\ hx.PD_SCK = "low"
    /\ main.pulses = 0

----------------------------------------------------------------------------
(* C32: when read() returns, the clock has been pulsed 24 times for the    *)
(* data bits and then 1, 2 or 3 times more for gain 32, 64 or 128 (GAIN 1, *)
(* 2, 3): 25, 26 or 27 pulses, and the clock is low.                       *)
C32_GainPulses ==
    (main.pc = "idle" /\ main.ret.kind = "value" /\ hx.GAIN \in 1..3) =>
        /\ main.pulses = SampleBits + hx.GAIN
        /\ hx.PD_SCK = "low"

----------------------------------------------------------------------------
(* C33: in each of the 24 turns of the data loop the data line is read     *)
(* while the clock is high, and the bits read so far are the most          *)
(* significant bits of the conversion, in order.                           *)
C33_BitSampledAtHighPhase ==
    /\ main.phase # "none" => main.phase = "high"
    /\ main.pc = "data_on" => main.count = main.arg \div 2^(SampleBits - main.i)

----------------------------------------------------------------------------
(* C34: Qt front end, no demo mode: when applyAndStart has parsed its      *)
(* settings and HX711() has succeeded, the slot ends without an exception, *)
(* a reader with a running thread is held and isReading is true.           *)
C34_QtStartLeavesReaderRunning ==
    [][ (ui = "qt" /\ ~demo /\ pre'.outcome = "none" /\ "construct" \in Range(io')) =>
           /\ "reader_construct_raised" \notin Range(io')
           /\ rd'.st = "live"
           /\ AliveThreads(rd') # {}
           /\ is_reading' ]_vars

----------------------------------------------------------------------------
----------------------------------------------------------------------------
(* C35: a device is closed only when the thread of the reader built on it  *)
(* has ended: no thread of a reader that was let go of is alive (inside    *)
(* read_average, or about to deliver a callback) on a closed device.       *)
C35_ClosedOnlyAfterLoopExit ==
    \A o \in BagToSet(orphans) : o.dev = "closed" => AliveThreads(o.r) = {}

----------------------------------------------------------------------------
(* C36: the read of a tare never overlaps the read of a tick on the same   *)
(* device: when a tare reads the held device, no thread of the held reader *)
(* is inside the read_average of its tick.                                 *)
C36_TareReadNotDuringTick ==
    [][ "tare_read" \in Range(io') =>
           \A i \in Threads(rd) : rd.threads[i].pc # "read" ]_vars

----------------------------------------------------------------------------
(* C38: whatever "samples" the configuration file holds and whatever the   *)
(* samples entry reads, every read_average call of the front ends and of   *)
(* the reader is made with a count of at least 1, and none of them ends    *)
(* with a ZeroDivisionError.                                               *)
C38_SampleCountAtLeastOne ==
    /\ main.pc = "avg" => main.arg >= 1
    /\ main.ret.kind = "raised" => main.ret.v # "ZeroDivisionError"

(* a tick of the reader started while the samples entry read 0 *)
C38_Witness ==
    /\ ui = "cnt"
    /\ gui.samples = Some(0)
    /\ main.op = "tick"
    /\ main.pc = "idle"
    /\ main.arg = 1
    /\ main.ret.kind = "value"


====
